---------------------------- MODULE Spec2Model ----------------------------
(***************************************************************************)
(* State-machine model of drivers/gpu/drm/amd/amdgpu/uvd_v6_0.c: the UVD   *)
(* 6.0 power/reset sequencer (start, stop, soft_reset), the lifecycle      *)
(* entry points built on it (hw_init, hw_fini, suspend, resume,            *)
(* set_powergating_state), the ring test and the idle queries.             *)
(*                                                                         *)
(* A 32-bit register value is the set of its bit positions that are 1      *)
(* (a subset of 0..31), so that and/or/not are set operations and values   *)
(* such as 0xDEADBEEF need no integer above 2^31.  A 64-bit address is a   *)
(* subset of 0..63.  A ring word is either a value (a bit set) or the      *)
(* PACKET0 header of a register, kept symbolic by the register's name.     *)
(***************************************************************************)
EXTENDS Integers, Sequences, FiniteSets, TLC

VARIABLES
    regs,     \* the device's memory-mapped registers: name -> bit set
    ring,     \* adev->uvd.ring: ready, wptr, wptr_old, count_dw, buf
    dev,      \* per-device data fixed at construction: fw size, addresses, APU flag
    pc,       \* position of the (single) driver thread
    op,       \* the lifecycle entry point being executed
    idx,      \* index of the next statement inside a straight-line block
    i,        \* loop counter i of the function being executed
    j,        \* loop counter j of uvd_v6_0_start
    r,        \* the int r of the function being executed, as its C spelling
    status,   \* the local status of uvd_v6_0_start / tmp of the ring test
    hist      \* observation record (history), never read by the program

vars == <<regs, ring, dev, pc, op, idx, i, j, r, status, hist>>

---------------------------------------------------------------------------
(* Bit-set arithmetic                                                      *)

\* Bit positions of a natural number below 2^31.
Bits(n) == {b \in 0..30 : (n \div (2 ^ b)) % 2 = 1}

RECURSIVE Val(_)
\* The number a bit set stands for (used on values below 2^31 only).
Val(s) == IF s = {} THEN 0
          ELSE LET b == CHOOSE x \in s : TRUE IN (2 ^ b) + Val(s \ {b})

\* A 32-bit word from its two 16-bit halves.
Word(hi16, lo16) == Bits(lo16) \cup {b + 16 : b \in Bits(hi16)}

ALL32 == 0..31
Not(m) == ALL32 \ m

lower_32_bits(a) == a \cap (0..31)
upper_32_bits(a) == {b - 32 : b \in (a \cap (32..63))}
ShiftRight(s, n) == {b - n : b \in {x \in s : x >= n}}

\* REG_SET_FIELD(orig, REG, FIELD, val) for a field at `shift` of `width` bits.
REG_SET_FIELD(orig, shift, width, val) ==
    (orig \ (shift..(shift + width - 1)))
        \cup {b + shift : b \in {x \in Bits(val) : x < width}}

---------------------------------------------------------------------------
(* Constants of the register headers and of amdgpu.h                       *)

UVD_SOFT_RESET__RBC_SOFT_RESET_MASK     == {0}
UVD_SOFT_RESET__LBSI_SOFT_RESET_MASK    == {1}
UVD_SOFT_RESET__LMI_SOFT_RESET_MASK     == {2}
UVD_SOFT_RESET__VCPU_SOFT_RESET_MASK    == {3}
UVD_SOFT_RESET__CSM_SOFT_RESET_MASK     == {5}
UVD_SOFT_RESET__CXW_SOFT_RESET_MASK     == {6}
UVD_SOFT_RESET__TAP_SOFT_RESET_MASK     == {7}
UVD_SOFT_RESET__LMI_UMC_SOFT_RESET_MASK == {13}
SRBM_SOFT_RESET__SOFT_RESET_UVD_MASK    == {18}
SRBM_STATUS__UVD_BUSY_MASK              == {19}
UVD_RBC_RB_CNTL__RB_NO_FETCH_MASK       == {16}

AMDGPU_GPU_PAGE_SIZE       == 4096
AMDGPU_UVD_FIRMWARE_OFFSET == 256
AMDGPU_UVD_STACK_SIZE      == 1048576
AMDGPU_UVD_HEAP_SIZE       == 1048576

AMDGPU_GPU_PAGE_ALIGN(a) ==
    ((a + (AMDGPU_GPU_PAGE_SIZE - 1)) \div AMDGPU_GPU_PAGE_SIZE) * AMDGPU_GPU_PAGE_SIZE

\* Loop bounds and sizes written in uvd_v6_0.c itself.
BOOT_OUTER_ATTEMPTS == 10
BOOT_INNER_POLLS    == 100
UVD_RING_SIZE       == 4096

\* order_base_2(n): the least k with 2^k >= n.
order_base_2(n) == CHOOSE k \in 0..30 : 2 ^ k >= n /\ (k = 0 \/ 2 ^ (k - 1) < n)

\* ring->ptr_mask + 1: the ring's size in 32-bit words.
RingDw == UVD_RING_SIZE \div 4

SENTINEL_CAFEDEAD == Word(51966, 57005)
SENTINEL_DEADBEEF == Word(57005, 48879)
RB_CNTL_IDLE      == Bits(285278465)      \* 0x11010101

\* PACKET0(reg, 0): a type-0 header addressing one register.
PACKET0(reg, n) == [type |-> "PACKET0", reg |-> reg, n |-> n]

---------------------------------------------------------------------------
(* Bounds and inputs of the model                                          *)

\* adev->usec_timeout, the device-wide poll budget.
UsecTimeout == 3

\* Largest firmware image, in pages, of the layout specification.
MaxFwPages == 25

RegNames == {
    "mmUVD_POWER_STATUS", "mmUVD_CGC_GATE", "mmUVD_MASTINT_EN", "mmUVD_LMI_CTRL2",
    "mmUVD_SOFT_RESET", "mmSRBM_SOFT_RESET", "mmUVD_LMI_CTRL",
    "mmUVD_LMI_SWAP_CNTL", "mmUVD_MP_SWAP_CNTL",
    "mmUVD_MPC_SET_MUXA0", "mmUVD_MPC_SET_MUXA1", "mmUVD_MPC_SET_MUXB0",
    "mmUVD_MPC_SET_MUXB1", "mmUVD_MPC_SET_ALU", "mmUVD_MPC_SET_MUX",
    "mmUVD_VCPU_CNTL", "mmUVD_STATUS",
    "mmUVD_RBC_RB_CNTL", "mmUVD_RBC_RB_WPTR_CNTL", "mmUVD_RBC_RB_RPTR_ADDR",
    "mmUVD_LMI_RBC_RB_64BIT_BAR_LOW", "mmUVD_LMI_RBC_RB_64BIT_BAR_HIGH",
    "mmUVD_RBC_RB_RPTR", "mmUVD_RBC_RB_WPTR",
    "mmUVD_LMI_VCPU_CACHE_64BIT_BAR_LOW", "mmUVD_LMI_VCPU_CACHE_64BIT_BAR_HIGH",
    "mmUVD_VCPU_CACHE_OFFSET0", "mmUVD_VCPU_CACHE_SIZE0",
    "mmUVD_VCPU_CACHE_OFFSET1", "mmUVD_VCPU_CACHE_SIZE1",
    "mmUVD_VCPU_CACHE_OFFSET2", "mmUVD_VCPU_CACHE_SIZE2",
    "mmUVD_CONTEXT_ID", "mmSRBM_STATUS",
    "mmUVD_SEMA_WAIT_FAULT_TIMEOUT_CNTL", "mmUVD_SEMA_WAIT_INCOMPLETE_TIMEOUT_CNTL",
    "mmUVD_SEMA_SIGNAL_INCOMPLETE_TIMEOUT_CNTL", "mmUVD_SEMA_TIMEOUT_STATUS",
    "mmUVD_SEMA_CNTL" }

\* Register contents of the device at power-on: the registers the sequencer
\* read-modify-writes hold bits of their own, the others are clear.
PowerOnImage ==
    [n \in RegNames |->
        CASE n = "mmUVD_POWER_STATUS" -> {0, 2}
          [] n = "mmUVD_LMI_CTRL2"    -> {3, 8}
          [] n = "mmUVD_MASTINT_EN"   -> {0, 1}
          [] n = "mmSRBM_SOFT_RESET"  -> {5, 18}
          [] n = "mmUVD_STATUS"       -> {2}
          [] n = "mmUVD_RBC_RB_CNTL"  -> {16, 20}
          [] OTHER                    -> {}]

\* adev->uvd.gpu_addr and ring->gpu_addr (64-bit GPU addresses).
UvdGpuAddr  == {12, 20, 33}
RingGpuAddr == {8, 21, 34, 35}

\* Firmware sizes of the lifecycle specification.
FwSizes == {100000}


\* #ifdef __BIG_ENDIAN of uvd_v6_0_start: the build modelled is little-endian.
BIG_ENDIAN_BUILD == FALSE

---------------------------------------------------------------------------
(* Register access                                                         *)

\* One statement of a straight-line block: a register write, a masked
\* read-modify-write, or one of the two ring-pointer statements of start.
\* ms is the mdelay() that follows it, line the source line of the statement.
W(reg, val, ms, line) ==
    [k |-> "WREG32", reg |-> reg, val |-> val, mask |-> {}, ms |-> ms, line |-> line]
WP(reg, val, mask, ms, line) ==
    [k |-> "WREG32_P", reg |-> reg, val |-> val, mask |-> mask, ms |-> ms, line |-> line]

\* WREG32(reg, v)
WREG32(rg, reg, v) == [rg EXCEPT ![reg] = v]

\* WREG32_P(reg, val, mask): tmp = RREG32(reg) & mask; tmp |= val & ~mask.
WREG32_P(rg, reg, val, mask) ==
    [rg EXCEPT ![reg] = (rg[reg] \cap mask) \cup (val \ mask)]

\* The registers after statement e.
ExecRegs(e, rg, rn) ==
    CASE e.k = "WREG32"   -> WREG32(rg, e.reg, e.val)
      [] e.k = "WREG32_P" -> WREG32_P(rg, e.reg, e.val, e.mask)
      [] e.k = "SET_WPTR" -> WREG32(rg, "mmUVD_RBC_RB_WPTR", Bits(rn.wptr))
      [] OTHER            -> rg

\* The ring descriptor after statement e.
ExecRing(e, rg, rn) ==
    IF e.k = "GET_RPTR" THEN [rn EXCEPT !.wptr = Val(rg["mmUVD_RBC_RB_RPTR"])]
    ELSE rn

---------------------------------------------------------------------------
(* uvd_v6_0_mc_resume                                                      *)

\* A variant of the layout that forgets the 4 bytes added to the image size.
mc_layout_no_pad(fw_size) ==
    LET size0 == AMDGPU_GPU_PAGE_ALIGN(fw_size)
        off0  == AMDGPU_UVD_FIRMWARE_OFFSET
        off1  == off0 + size0
        off2  == off1 + AMDGPU_UVD_STACK_SIZE
    IN  << [offset |-> off0, size |-> size0],
           [offset |-> off1, size |-> AMDGPU_UVD_STACK_SIZE],
           [offset |-> off2, size |-> AMDGPU_UVD_HEAP_SIZE] >>

\* A variant of the layout that does not advance the offset past the stack.
mc_layout_no_advance(fw_size) ==
    LET size0 == AMDGPU_GPU_PAGE_ALIGN(fw_size + 4)
        off0  == AMDGPU_UVD_FIRMWARE_OFFSET
        off1  == off0 + size0
    IN  << [offset |-> off0, size |-> size0],
           [offset |-> off1, size |-> AMDGPU_UVD_STACK_SIZE],
           [offset |-> off1, size |-> AMDGPU_UVD_HEAP_SIZE] >>

\* The (offset, size) pairs of the cache, stack and heap regions, in bytes,
\* as the locals offset and size take them.
mc_layout(fw_size) ==
    LET size0 == AMDGPU_GPU_PAGE_ALIGN(fw_size + 4)
        off0  == AMDGPU_UVD_FIRMWARE_OFFSET
        off1  == off0 + size0
        off2  == off1 + AMDGPU_UVD_STACK_SIZE
    IN  << [offset |-> off0, size |-> size0],
           [offset |-> off1, size |-> AMDGPU_UVD_STACK_SIZE],
           [offset |-> off2, size |-> AMDGPU_UVD_HEAP_SIZE] >>

\* The eight register writes of mc_resume (offsets are programmed >> 3).
mc_resume(d) ==
    LET L == mc_layout(d.fw_size) IN
    << W("mmUVD_LMI_VCPU_CACHE_64BIT_BAR_LOW",  lower_32_bits(d.uvd_gpu_addr), 0, 261),
       W("mmUVD_LMI_VCPU_CACHE_64BIT_BAR_HIGH", upper_32_bits(d.uvd_gpu_addr), 0, 263),
       W("mmUVD_VCPU_CACHE_OFFSET0", ShiftRight(Bits(L[1].offset), 3), 0, 268),
       W("mmUVD_VCPU_CACHE_SIZE0",   Bits(L[1].size), 0, 269),
       W("mmUVD_VCPU_CACHE_OFFSET1", ShiftRight(Bits(L[2].offset), 3), 0, 273),
       W("mmUVD_VCPU_CACHE_SIZE1",   Bits(L[2].size), 0, 274),
       W("mmUVD_VCPU_CACHE_OFFSET2", ShiftRight(Bits(L[3].offset), 3), 0, 278),
       W("mmUVD_VCPU_CACHE_SIZE2",   Bits(L[3].size), 0, 279) >>

---------------------------------------------------------------------------
(* uvd_v6_0_start and uvd_v6_0_stop: the straight-line blocks              *)

ALL_SUBBLOCKS_RESET ==
    UVD_SOFT_RESET__LMI_SOFT_RESET_MASK \cup UVD_SOFT_RESET__VCPU_SOFT_RESET_MASK
    \cup UVD_SOFT_RESET__LBSI_SOFT_RESET_MASK \cup UVD_SOFT_RESET__RBC_SOFT_RESET_MASK
    \cup UVD_SOFT_RESET__CSM_SOFT_RESET_MASK \cup UVD_SOFT_RESET__CXW_SOFT_RESET_MASK
    \cup UVD_SOFT_RESET__TAP_SOFT_RESET_MASK \cup UVD_SOFT_RESET__LMI_UMC_SOFT_RESET_MASK

lmi_swap_cntl == IF BIG_ENDIAN_BUILD THEN Bits(10) ELSE {}
mp_swap_cntl  == {}

\* A variant of lines 297-310 that programs the byte-swap registers right
\* after the power-status write.
start_power_up_swap_early(d) ==
    << WP("mmUVD_POWER_STATUS", {}, Not({2}), 0, 298),
       W("mmUVD_LMI_SWAP_CNTL", lmi_swap_cntl, 0, 337),
       W("mmUVD_MP_SWAP_CNTL", mp_swap_cntl, 0, 338) >>
    \o mc_resume(d)
    \o << W("mmUVD_CGC_GATE", {}, 0, 307),
          WP("mmUVD_MASTINT_EN", {}, Not({1}), 0, 310) >>

\* A variant of lines 297-310 that sets the trap-enable bit where line 310
\* clears it.
start_power_up_trap_enabled(d) ==
    << WP("mmUVD_POWER_STATUS", {}, Not({2}), 0, 298) >>
    \o mc_resume(d)
    \o << W("mmUVD_CGC_GATE", {}, 0, 307),
          WP("mmUVD_MASTINT_EN", {1}, Not({1}), 0, 310) >>

\* Lines 297-310: the writes of start before the bus bridge is stalled.  The
\* assignments of lines 300-301 set the locals lmi_swap_cntl and mp_swap_cntl
\* and write no register.
start_power_up(d) ==
    << WP("mmUVD_POWER_STATUS", {}, Not({2}), 0, 298) >>
    \o mc_resume(d)
    \o << W("mmUVD_CGC_GATE", {}, 0, 307),
          WP("mmUVD_MASTINT_EN", {}, Not({1}), 0, 310) >>

\* A variant of lines 312-359 that releases the VCPU from reset before its
\* clock is enabled and the bridge is unstalled.
start_reset_domain_release_first ==
    << WP("mmUVD_LMI_CTRL2", {8}, Not({8}), 1, 313),
       W("mmUVD_SOFT_RESET", ALL_SUBBLOCKS_RESET, 5, 317),
       WP("mmSRBM_SOFT_RESET", {}, Not(SRBM_SOFT_RESET__SOFT_RESET_UVD_MASK), 5, 325),
       W("mmUVD_LMI_CTRL", {6, 8, 9, 13, 20, 21}, 0, 329),
       W("mmUVD_LMI_SWAP_CNTL", lmi_swap_cntl, 0, 337),
       W("mmUVD_MP_SWAP_CNTL", mp_swap_cntl, 0, 338),
       W("mmUVD_MPC_SET_MUXA0", Bits(67903552), 0, 340),
       W("mmUVD_MPC_SET_MUXA1", {}, 0, 341),
       W("mmUVD_MPC_SET_MUXB0", Bits(67903552), 0, 342),
       W("mmUVD_MPC_SET_MUXB1", {}, 0, 343),
       W("mmUVD_MPC_SET_ALU", {}, 0, 344),
       W("mmUVD_MPC_SET_MUX", Bits(136), 0, 345),
       W("mmUVD_SOFT_RESET", UVD_SOFT_RESET__VCPU_SOFT_RESET_MASK, 5, 348),
       W("mmUVD_SOFT_RESET", {}, 10, 358),
       W("mmUVD_VCPU_CNTL", {9}, 0, 352),
       WP("mmUVD_LMI_CTRL2", {}, Not({8}), 0, 355) >>

\* Lines 312-359: the reset domain of start, from the stall of the bus bridge
\* to the release of the VCPU.
start_reset_domain ==
    << WP("mmUVD_LMI_CTRL2", {8}, Not({8}), 1, 313),
       W("mmUVD_SOFT_RESET", ALL_SUBBLOCKS_RESET, 5, 317),
       WP("mmSRBM_SOFT_RESET", {}, Not(SRBM_SOFT_RESET__SOFT_RESET_UVD_MASK), 5, 325),
       W("mmUVD_LMI_CTRL", {6, 8, 9, 13, 20, 21}, 0, 329),
       W("mmUVD_LMI_SWAP_CNTL", lmi_swap_cntl, 0, 337),
       W("mmUVD_MP_SWAP_CNTL", mp_swap_cntl, 0, 338),
       W("mmUVD_MPC_SET_MUXA0", Bits(67903552), 0, 340),
       W("mmUVD_MPC_SET_MUXA1", {}, 0, 341),
       W("mmUVD_MPC_SET_MUXB0", Bits(67903552), 0, 342),
       W("mmUVD_MPC_SET_MUXB1", {}, 0, 343),
       W("mmUVD_MPC_SET_ALU", {}, 0, 344),
       W("mmUVD_MPC_SET_MUX", Bits(136), 0, 345),
       W("mmUVD_SOFT_RESET", UVD_SOFT_RESET__VCPU_SOFT_RESET_MASK, 5, 348),
       W("mmUVD_VCPU_CNTL", {9}, 0, 352),
       WP("mmUVD_LMI_CTRL2", {}, Not({8}), 0, 355),
       W("mmUVD_SOFT_RESET", {}, 10, 358) >>

\* Lines 297-359: everything start does before it polls UVD_STATUS.
start_prologue(d) == start_power_up(d) \o start_reset_domain

\* Lines 394-401: the ring-control word start programs.
rb_cntl_word ==
    LET rb_bufsz == order_base_2(UVD_RING_SIZE)
        t1 == REG_SET_FIELD({}, 0, 5, rb_bufsz)     \* RB_BUFSZ
        t2 == REG_SET_FIELD(t1, 8, 5, 1)            \* RB_BLKSZ
        t3 == REG_SET_FIELD(t2, 16, 1, 1)           \* RB_NO_FETCH
        t4 == REG_SET_FIELD(t3, 20, 1, 0)           \* RB_WPTR_POLL_EN
        t5 == REG_SET_FIELD(t4, 24, 1, 1)           \* RB_NO_UPDATE
    IN  REG_SET_FIELD(t5, 28, 1, 1)                 \* RB_RPTR_WR_EN

\* A variant of the epilogue that skips ring->wptr = RREG32(mmUVD_RBC_RB_RPTR).
start_epilogue_stale_wptr(d) ==
    << WP("mmUVD_MASTINT_EN", {1, 2}, Not({1, 2}), 0, 389),
       WP("mmUVD_STATUS", {}, Not({2}), 0, 392),
       W("mmUVD_RBC_RB_CNTL", rb_cntl_word, 0, 403),
       W("mmUVD_RBC_RB_WPTR_CNTL", {}, 0, 406),
       W("mmUVD_RBC_RB_RPTR_ADDR", ShiftRight(upper_32_bits(d.ring_gpu_addr), 2), 0, 409),
       W("mmUVD_LMI_RBC_RB_64BIT_BAR_LOW", lower_32_bits(d.ring_gpu_addr), 0, 412),
       W("mmUVD_LMI_RBC_RB_64BIT_BAR_HIGH", upper_32_bits(d.ring_gpu_addr), 0, 414),
       W("mmUVD_RBC_RB_RPTR", {}, 0, 418),
       [k |-> "SET_WPTR", reg |-> "mmUVD_RBC_RB_WPTR", val |-> {}, mask |-> {},
        ms |-> 0, line |-> 421],
       WP("mmUVD_RBC_RB_CNTL", {}, Not(UVD_RBC_RB_CNTL__RB_NO_FETCH_MASK), 0, 423) >>

\* A variant of the epilogue that clears the no-fetch bit before the ring
\* pointers are programmed.
start_epilogue_fetch_first(d) ==
    << WP("mmUVD_MASTINT_EN", {1, 2}, Not({1, 2}), 0, 389),
       WP("mmUVD_STATUS", {}, Not({2}), 0, 392),
       W("mmUVD_RBC_RB_CNTL", rb_cntl_word, 0, 403),
       W("mmUVD_RBC_RB_WPTR_CNTL", {}, 0, 406),
       W("mmUVD_RBC_RB_RPTR_ADDR", ShiftRight(upper_32_bits(d.ring_gpu_addr), 2), 0, 409),
       W("mmUVD_LMI_RBC_RB_64BIT_BAR_LOW", lower_32_bits(d.ring_gpu_addr), 0, 412),
       W("mmUVD_LMI_RBC_RB_64BIT_BAR_HIGH", upper_32_bits(d.ring_gpu_addr), 0, 414),
       WP("mmUVD_RBC_RB_CNTL", {}, Not(UVD_RBC_RB_CNTL__RB_NO_FETCH_MASK), 0, 423),
       W("mmUVD_RBC_RB_RPTR", {}, 0, 418),
       [k |-> "GET_RPTR", reg |-> "mmUVD_RBC_RB_RPTR", val |-> {}, mask |-> {},
        ms |-> 0, line |-> 420],
       [k |-> "SET_WPTR", reg |-> "mmUVD_RBC_RB_WPTR", val |-> {}, mask |-> {},
        ms |-> 0, line |-> 421] >>

\* Lines 388-423: what start does once the VCPU has booted.
start_epilogue(d) ==
    << WP("mmUVD_MASTINT_EN", {1, 2}, Not({1, 2}), 0, 389),
       WP("mmUVD_STATUS", {}, Not({2}), 0, 392),
       W("mmUVD_RBC_RB_CNTL", rb_cntl_word, 0, 403),
       W("mmUVD_RBC_RB_WPTR_CNTL", {}, 0, 406),
       W("mmUVD_RBC_RB_RPTR_ADDR", ShiftRight(upper_32_bits(d.ring_gpu_addr), 2), 0, 409),
       W("mmUVD_LMI_RBC_RB_64BIT_BAR_LOW", lower_32_bits(d.ring_gpu_addr), 0, 412),
       W("mmUVD_LMI_RBC_RB_64BIT_BAR_HIGH", upper_32_bits(d.ring_gpu_addr), 0, 414),
       W("mmUVD_RBC_RB_RPTR", {}, 0, 418),
       [k |-> "GET_RPTR", reg |-> "mmUVD_RBC_RB_RPTR", val |-> {}, mask |-> {},
        ms |-> 0, line |-> 420],
       [k |-> "SET_WPTR", reg |-> "mmUVD_RBC_RB_WPTR", val |-> {}, mask |-> {},
        ms |-> 0, line |-> 421],
       WP("mmUVD_RBC_RB_CNTL", {}, Not(UVD_RBC_RB_CNTL__RB_NO_FETCH_MASK), 0, 423) >>

\* A variant of stop that leaves the bus bridge stalled.
stop_sequence_no_unstall ==
    << W("mmUVD_RBC_RB_CNTL", RB_CNTL_IDLE, 0, 438),
       WP("mmUVD_LMI_CTRL2", {8}, Not({8}), 1, 441),
       W("mmUVD_SOFT_RESET", UVD_SOFT_RESET__VCPU_SOFT_RESET_MASK, 5, 445),
       W("mmUVD_VCPU_CNTL", {}, 0, 449) >>

\* Lines 438-452: uvd_v6_0_stop.
stop_sequence ==
    << W("mmUVD_RBC_RB_CNTL", RB_CNTL_IDLE, 0, 438),
       WP("mmUVD_LMI_CTRL2", {8}, Not({8}), 1, 441),
       W("mmUVD_SOFT_RESET", UVD_SOFT_RESET__VCPU_SOFT_RESET_MASK, 5, 445),
       W("mmUVD_VCPU_CNTL", {}, 0, 449),
       WP("mmUVD_LMI_CTRL2", {}, Not({8}), 0, 452) >>

---------------------------------------------------------------------------
(* Initial state: the device after a successful sw_init                    *)

HistInit ==
    [ attempts    |-> 0,      \* outer boot-poll attempts begun by the running start
      reads       |-> 0,      \* UVD_STATUS reads of the current outer attempt
      cycles      |-> 0,      \* VCPU reset-and-retry cycles of the running start
      bootAttempt |-> 0,      \* the attempt whose read first showed the booted bit
      booted      |-> FALSE,  \* the running start left its loop on a booted read
      seq         |-> "none", \* the sequencer function that completed last
      afterStop   |-> FALSE,  \* the running start was entered right after a stop
      lastStop    |-> {},     \* the registers as the last stop left them
      polls       |-> 0,      \* UVD_CONTEXT_ID polls of the running ring test
      sawBeef     |-> FALSE,  \* one of them read 0xDEADBEEF
      lockFailed  |-> FALSE,  \* the last amdgpu_ring_lock failed
      bufAtTest   |-> <<>>,   \* ring contents when the ring test began
      wptrAtTest  |-> 0,      \* ring->wptr when the ring test began
      hwWptrAtLock |-> {},    \* UVD_RBC_RB_WPTR when the ring was locked
      wreads      |-> 0,      \* SRBM_STATUS reads of the running wait_for_idle
      lastBusy    |-> TRUE,   \* the busy bit of its last read
      allBusy     |-> TRUE,   \* every read so far showed the busy bit
      trace       |-> <<>>,   \* the register writes of the running call, in order
      startAt     |-> 0,      \* length of trace when the running start was entered
      startRet    |-> "none", \* what the last start of the running call returned
      mem         |-> "none" ]\* the memory step of suspend/resume: skipped, ok, failed

\* The software state uvd_v6_0_sw_init builds through its four callees: the
\* trap interrupt source registered (amdgpu_irq_add_id), the firmware and
\* scratch buffer allocated (amdgpu_uvd_sw_init), the firmware resident in it
\* (amdgpu_uvd_resume), the ring descriptor constructed (amdgpu_ring_init),
\* and the owning driver's record that sw_init has succeeded.
SwUninitialized ==
    [irq |-> FALSE, bo |-> FALSE, fw |-> FALSE, ring |-> FALSE, sw_done |-> FALSE]
SwInitialized ==
    [irq |-> TRUE, bo |-> TRUE, fw |-> TRUE, ring |-> TRUE, sw_done |-> TRUE]

Init ==
    /\ regs = PowerOnImage
    /\ ring = [ready |-> FALSE, wptr |-> 0, wptr_old |-> 0, count_dw |-> 0, buf |-> <<>>]
    /\ dev \in [fw_size : FwSizes, uvd_gpu_addr : {UvdGpuAddr},
                ring_gpu_addr : {RingGpuAddr}, is_apu : BOOLEAN,
                usec_timeout : {UsecTimeout}, sw : {SwInitialized}]
    /\ pc = "idle" /\ op = "none"
    /\ idx = 0 /\ i = 0 /\ j = 0 /\ r = "0" /\ status = {}
    /\ hist = HistInit

---------------------------------------------------------------------------
(* Calls between the functions                                             *)

\* The observation record after a write of register reg that left it at v
\* and was followed by mdelay(ms).
LogWrite(h, reg, v, ms) ==
    [h EXCEPT !.trace = Append(@, [reg |-> reg, val |-> v, ms |-> ms])]

\* The observation record after statement e of a block left the registers rg2
\* (the read of line 420 writes no register).
LogStmt(h, e, rg2) ==
    IF e.k = "GET_RPTR" THEN h ELSE LogWrite(h, e.reg, rg2[e.reg], e.ms)

\* The observation record at the entry of uvd_v6_0_start.
HistEnterStart(h) ==
    [h EXCEPT !.attempts = 0, !.reads = 0, !.cycles = 0, !.bootAttempt = 0,
              !.booted = FALSE,
              !.afterStop = (h.seq = "stop"), !.lastStop = {},
              !.startAt = Len(h.trace), !.startRet = "none"]

\* The observation record at the entry of uvd_v6_0_stop.
HistEnterStop(h) == h

\* The registers and pointers a successful start leaves behind.
ReadyState(rg, rn) ==
    [ regs |-> [n \in RegNames \ {"mmUVD_CONTEXT_ID", "mmSRBM_STATUS",
                    "mmUVD_SEMA_WAIT_FAULT_TIMEOUT_CNTL",
                    "mmUVD_SEMA_WAIT_INCOMPLETE_TIMEOUT_CNTL",
                    "mmUVD_SEMA_SIGNAL_INCOMPLETE_TIMEOUT_CNTL",
                    "mmUVD_SEMA_TIMEOUT_STATUS", "mmUVD_SEMA_CNTL"} |-> rg[n]],
      sw_wptr |-> rn.wptr ]

\* The observation record when an entry point returns: what was observed of
\* the call is dropped, what describes the device is kept.
HistAtReturn(h) ==
    [HistInit EXCEPT !.seq = h.seq, !.lastStop = h.lastStop]

\* enum amdgpu_interrupt_state
AMDGPU_IRQ_STATE_DISABLE == 0
AMDGPU_IRQ_STATE_ENABLE == 1

\* The call of uvd_v6_0_start / uvd_v6_0_stop with h observed so far.
CallStartWith(h) == /\ pc' = "start_pre" /\ idx' = 1
                    /\ hist' = HistEnterStart(h)
CallStopWith(h)  == /\ pc' = "stop_seq" /\ idx' = 1
                    /\ hist' = HistEnterStop(h)

CallStart == CallStartWith(hist)
CallStop  == CallStopWith(hist)

---------------------------------------------------------------------------
(* Entry points: the owning driver calls one when the thread is idle       *)

\* uvd_v6_0_hw_init, line 149
Call_hw_init ==
    /\ pc = "idle" /\ op' = "hw_init" /\ CallStart
    /\ UNCHANGED <<regs, ring, dev, i, j, r, status>>

\* uvd_v6_0_hw_fini, line 206
Call_hw_fini ==
    /\ pc = "idle" /\ op' = "hw_fini" /\ CallStop
    /\ UNCHANGED <<regs, ring, dev, i, j, r, status>>

\* A variant of suspend that runs hw_fini although the memory step failed.
Call_suspend_ignores_failure ==
    /\ pc = "idle"
    /\ IF dev.is_apu
       THEN /\ op' = "hw_fini" /\ CallStopWith([hist EXCEPT !.mem = "skipped"])
       ELSE \E ok \in BOOLEAN :
              /\ op' = "hw_fini"
              /\ CallStopWith([hist EXCEPT !.mem = IF ok THEN "ok" ELSE "failed"])
    /\ UNCHANGED <<regs, ring, dev, i, j, r, status>>

\* uvd_v6_0_suspend, lines 217-227: amdgpu_uvd_suspend unless the device is an
\* APU; its failure is returned before hw_fini runs.  What follows is
\* hw_fini, whose result suspend returns as it is.
Call_suspend ==
    /\ pc = "idle"
    /\ IF dev.is_apu
       THEN /\ op' = "hw_fini" /\ CallStopWith([hist EXCEPT !.mem = "skipped"])
            /\ UNCHANGED r
       ELSE \E ok \in BOOLEAN :
              IF ok THEN /\ op' = "hw_fini" /\ CallStopWith([hist EXCEPT !.mem = "ok"])
                         /\ UNCHANGED r
              ELSE /\ op' = "suspend" /\ pc' = "done" /\ r' = "-ENOMEM"
                   /\ hist' = [hist EXCEPT !.mem = "failed"]
                   /\ UNCHANGED idx
    /\ UNCHANGED <<regs, ring, dev, i, j, status>>

\* uvd_v6_0_resume, lines 235-245: amdgpu_uvd_resume unless the device is an
\* APU; its failure is returned before hw_init runs.  What follows is
\* hw_init, whose result resume returns as it is.
Call_resume ==
    /\ pc = "idle"
    /\ IF dev.is_apu
       THEN /\ op' = "hw_init" /\ CallStartWith([hist EXCEPT !.mem = "skipped"])
            /\ UNCHANGED r
       ELSE \E ok \in BOOLEAN :
              IF ok THEN /\ op' = "hw_init" /\ CallStartWith([hist EXCEPT !.mem = "ok"])
                         /\ UNCHANGED r
              ELSE /\ op' = "resume" /\ pc' = "done" /\ r' = "-EINVAL"
                   /\ hist' = [hist EXCEPT !.mem = "failed"]
                   /\ UNCHANGED idx
    /\ UNCHANGED <<regs, ring, dev, i, j, status>>

\* uvd_v6_0_soft_reset, line 631
Call_soft_reset ==
    /\ pc = "idle" /\ op' = "soft_reset" /\ CallStop
    /\ UNCHANGED <<regs, ring, dev, i, j, r, status>>

\* A variant of set_powergating_state that starts the engine for every state.
Call_set_powergating_state_always_start ==
    /\ pc = "idle"
    /\ \E state \in {"AMD_PG_STATE_GATE", "AMD_PG_STATE_UNGATE"} :
         IF state = "AMD_PG_STATE_GATE"
         THEN op' = "pg_gate" /\ CallStart
         ELSE op' = "pg_ungate" /\ CallStart
    /\ UNCHANGED <<regs, ring, dev, i, j, r, status>>

\* uvd_v6_0_set_powergating_state, lines 776-781
Call_set_powergating_state ==
    /\ pc = "idle"
    /\ \E state \in {"AMD_PG_STATE_GATE", "AMD_PG_STATE_UNGATE"} :
         IF state = "AMD_PG_STATE_GATE"
         THEN op' = "pg_gate" /\ CallStop
         ELSE op' = "pg_ungate" /\ CallStart
    /\ UNCHANGED <<regs, ring, dev, i, j, r, status>>

\* uvd_v6_0_set_interrupt_state, lines 740-747: the body is a TODO comment
\* and return 0.  type is kept in j and state in status for the trace; no
\* register, ring or device field is touched.
Call_set_interrupt_state ==
    /\ pc = "idle" /\ op' = "set_interrupt_state"
    /\ \E type \in {0, 1}, state \in {AMDGPU_IRQ_STATE_DISABLE, AMDGPU_IRQ_STATE_ENABLE} :
         /\ j' = type
         /\ status' = Bits(state)
    /\ r' = "0"
    /\ pc' = "done"
    /\ UNCHANGED <<regs, ring, dev, idx, i, hist>>

\* The entry point returns to the owning driver.
Return ==
    /\ pc = "done"
    /\ pc' = "idle" /\ op' = "none"
    /\ idx' = 0 /\ i' = 0 /\ j' = 0 /\ r' = "0" /\ status' = {}
    /\ hist' = HistAtReturn(hist)
    /\ UNCHANGED <<regs, ring, dev>>

---------------------------------------------------------------------------
(* uvd_v6_0_start                                                          *)

\* One statement of lines 297-359.  What was observed of the memory step of
\* resume is dropped when the boot poll is entered.
start_pre_step ==
    /\ pc = "start_pre"
    /\ LET blk == start_prologue(dev)
           e   == blk[idx]
       IN  /\ regs' = ExecRegs(e, regs, ring)
           /\ ring' = ExecRing(e, regs, ring)
           /\ hist' = IF idx < Len(blk)
                      THEN LogStmt(hist, e, regs')
                      ELSE [LogStmt(hist, e, regs') EXCEPT !.mem = "none"]
           /\ IF idx < Len(blk)
              THEN idx' = idx + 1 /\ UNCHANGED <<pc, i, j>>
              ELSE pc' = "start_poll" /\ idx' = 0 /\ i' = 0 /\ j' = 0
    /\ UNCHANGED <<dev, op, r, status>>

\* A variant of the inner loop whose test is j <= 100.
start_poll_read_one_more ==
    /\ pc = "start_poll"
    /\ \E booted \in BOOLEAN :
         LET st  == (regs["mmUVD_STATUS"] \ {1}) \cup (IF booted THEN {1} ELSE {})
             att == i + 1
         IN  /\ status' = st
             /\ regs' = [regs EXCEPT !["mmUVD_STATUS"] = st]
             /\ hist' = [hist EXCEPT
                           !.attempts = att,
                           !.reads = j + 1,
                           !.bootAttempt = IF booted /\ @ = 0 THEN att ELSE @]
             /\ IF booted
                THEN j' = j /\ pc' = "start_check"
                ELSE /\ j' = j + 1
                     /\ pc' = IF j + 1 <= BOOT_INNER_POLLS
                              THEN "start_poll" ELSE "start_check"
    /\ UNCHANGED <<ring, dev, op, idx, i, r>>

\* Lines 364-369, one pass of the inner loop (the thread is here only while
\* j < 100): status = RREG32(mmUVD_STATUS); on bit 1 break, else mdelay(10),
\* ++j and the loop's test.  The VCPU decides what each read shows.  Between
\* two reads the thread waits in mdelay and everything else can run.
start_poll_read ==
    /\ pc = "start_poll"
    /\ \E booted \in BOOLEAN :
         LET st  == (regs["mmUVD_STATUS"] \ {1}) \cup (IF booted THEN {1} ELSE {})
             att == i + 1
         IN  /\ status' = st
             /\ regs' = [regs EXCEPT !["mmUVD_STATUS"] = st]
             /\ hist' = [hist EXCEPT
                           !.attempts = att,
                           !.reads = j + 1,
                           !.bootAttempt = IF booted /\ @ = 0 THEN att ELSE @]
             /\ IF booted
                THEN j' = j /\ pc' = "start_check"
                ELSE /\ j' = j + 1
                     /\ pc' = IF j + 1 < BOOT_INNER_POLLS
                              THEN "start_poll" ELSE "start_check"
    /\ UNCHANGED <<ring, dev, op, idx, i, r>>

\* A variant of lines 370-372 that does not clear r before testing the status.
start_check_keeps_r ==
    /\ pc = "start_check"
    /\ IF 1 \in status
       THEN /\ pc' = "start_after_loop"
            /\ j' = 0
            /\ hist' = [hist EXCEPT !.reads = 0]
       ELSE /\ pc' = "start_retry_assert"
            /\ UNCHANGED <<j, hist>>
    /\ UNCHANGED <<regs, ring, dev, op, idx, i, r, status>>

\* Lines 370-372: r = 0; leave the outer loop when the last read was booted.
\* j is not read again before line 364 sets it to 0: on the way out of the
\* loop it and the read count of the attempt are cleared.
start_check ==
    /\ pc = "start_check"
    /\ r' = "0"
    /\ IF 1 \in status
       THEN /\ pc' = "start_after_loop"
            /\ j' = 0
            /\ hist' = [hist EXCEPT !.reads = 0]
       ELSE /\ pc' = "start_retry_assert"
            /\ UNCHANGED <<j, hist>>
    /\ UNCHANGED <<regs, ring, dev, op, idx, i, status>>

\* Lines 374-377: assert the VCPU soft reset, mdelay(10).
start_retry_assert ==
    /\ pc = "start_retry_assert"
    /\ regs' = WREG32_P(regs, "mmUVD_SOFT_RESET", UVD_SOFT_RESET__VCPU_SOFT_RESET_MASK,
                        Not(UVD_SOFT_RESET__VCPU_SOFT_RESET_MASK))
    /\ hist' = LogWrite(hist, "mmUVD_SOFT_RESET", regs'["mmUVD_SOFT_RESET"], 10)
    /\ pc' = "start_retry_deassert"
    /\ UNCHANGED <<ring, dev, op, idx, i, j, r, status>>

\* Lines 378-382: deassert the VCPU soft reset, mdelay(10), r = -1, ++i and
\* the outer loop's test.
start_retry_deassert ==
    /\ pc = "start_retry_deassert"
    /\ regs' = WREG32_P(regs, "mmUVD_SOFT_RESET", {},
                        Not(UVD_SOFT_RESET__VCPU_SOFT_RESET_MASK))
    /\ r' = "-1"
    /\ i' = i + 1 /\ j' = 0
    /\ pc' = IF i + 1 < BOOT_OUTER_ATTEMPTS THEN "start_poll" ELSE "start_after_loop"
    /\ hist' = [LogWrite(hist, "mmUVD_SOFT_RESET", regs'["mmUVD_SOFT_RESET"], 10)
                   EXCEPT !.cycles = @ + 1]
    /\ UNCHANGED <<ring, dev, op, idx, status>>

\* Lines 384-387: give up when r is set.  The loop counters are dead from
\* here on; on the way to the epilogue they and the observations of the loop
\* are cleared.
start_after_loop ==
    /\ pc = "start_after_loop"
    /\ IF r # "0"
       THEN /\ pc' = "start_ret" /\ idx' = 0
            /\ hist' = [hist EXCEPT !.seq = "start", !.startRet = r]
            /\ UNCHANGED <<i, j, status>>
       ELSE /\ pc' = "start_post" /\ idx' = 1
            /\ i' = 0 /\ j' = 0 /\ status' = {}
            /\ hist' = [hist EXCEPT !.attempts = 0, !.reads = 0, !.cycles = 0,
                                    !.bootAttempt = 0, !.booted = (1 \in status),
                                    !.trace = <<>>, !.startAt = 0, !.mem = "none"]
    /\ UNCHANGED <<regs, ring, dev, op, r>>

\* One statement of lines 388-425; the last one is followed by return 0.
start_post_step ==
    /\ pc = "start_post"
    /\ LET blk == start_epilogue(dev)
           e   == blk[idx]
           rg2 == ExecRegs(e, regs, ring)
           rn2 == ExecRing(e, regs, ring)
       IN  /\ regs' = rg2
           /\ ring' = rn2
           /\ IF idx < Len(blk)
              THEN /\ idx' = idx + 1 /\ UNCHANGED <<pc, r>>
                   /\ hist' = LogStmt(hist, e, rg2)
              ELSE /\ pc' = "start_ret" /\ idx' = 0 /\ r' = "0"
                   /\ hist' = [LogStmt(hist, e, rg2) EXCEPT !.seq = "start",
                                                            !.startRet = "0"]
    /\ UNCHANGED <<dev, op, i, j, status>>

\* start returns r to hw_init (line 149), soft_reset (637) or
\* set_powergating_state (780).
start_return ==
    /\ pc = "start_ret"
    /\ pc' = IF op = "hw_init" THEN "hw_init_started" ELSE "done"
    /\ UNCHANGED <<regs, ring, dev, op, idx, i, j, r, status, hist>>

---------------------------------------------------------------------------
(* uvd_v6_0_stop, uvd_v6_0_hw_fini, uvd_v6_0_soft_reset                    *)

\* One statement of lines 438-452.
stop_step ==
    /\ pc = "stop_seq"
    /\ LET blk == stop_sequence
           e   == blk[idx]
       IN  /\ regs' = ExecRegs(e, regs, ring)
           /\ hist' = LogStmt(hist, e, regs')
           /\ IF idx < Len(blk)
              THEN idx' = idx + 1 /\ UNCHANGED pc
              ELSE pc' = "stop_ret" /\ idx' = 0
    /\ UNCHANGED <<ring, dev, op, i, j, r, status>>

\* stop returns to hw_fini (line 206), soft_reset (631) or
\* set_powergating_state (777, which then returns 0).
stop_return ==
    /\ pc = "stop_ret"
    /\ hist' = [hist EXCEPT !.seq = "stop", !.lastStop = {regs}]
    /\ CASE op = "hw_fini"    -> pc' = "hw_fini_mark" /\ UNCHANGED r
         [] op = "soft_reset"             -> pc' = "soft_reset_srbm" /\ UNCHANGED r
         [] OTHER                         -> pc' = "done" /\ r' = "0"
    /\ UNCHANGED <<regs, ring, dev, op, idx, i, j, status>>

\* A variant of lines 207-209 that leaves the ready mark as it is.
hw_fini_mark_keeps_ready ==
    /\ pc = "hw_fini_mark"
    /\ r' = "0" /\ pc' = "done"
    /\ UNCHANGED <<regs, ring, dev, op, idx, i, j, status, hist>>

\* Lines 207-209: ring->ready = false; return 0.
hw_fini_mark ==
    /\ pc = "hw_fini_mark"
    /\ ring' = [ring EXCEPT !.ready = FALSE]
    /\ r' = "0" /\ pc' = "done"
    /\ UNCHANGED <<regs, dev, op, idx, i, j, status, hist>>

\* A variant of lines 633-637 that starts the engine without the SRBM reset.
soft_reset_skips_srbm ==
    /\ pc = "soft_reset_srbm"
    /\ CallStart
    /\ UNCHANGED <<regs, ring, dev, op, i, j, r, status>>

\* Lines 633-637: assert the SRBM soft reset of the UVD, mdelay(5), then start.
soft_reset_srbm ==
    /\ pc = "soft_reset_srbm"
    /\ regs' = WREG32_P(regs, "mmSRBM_SOFT_RESET", SRBM_SOFT_RESET__SOFT_RESET_UVD_MASK,
                        Not(SRBM_SOFT_RESET__SOFT_RESET_UVD_MASK))
    /\ CallStartWith(LogWrite(hist, "mmSRBM_SOFT_RESET", regs'["mmSRBM_SOFT_RESET"], 5))
    /\ UNCHANGED <<ring, dev, op, i, j, r, status>>

---------------------------------------------------------------------------
(* The ring transport (amdgpu_ring.c) and the ring's consumer              *)

\* amdgpu_ring_lock(ring, ndw), when it succeeds: ndw words are reserved and
\* the write pointer is remembered.
amdgpu_ring_lock(rn, ndw) == [rn EXCEPT !.count_dw = ndw, !.wptr_old = rn.wptr]

\* amdgpu_ring_write(ring, v): ring->ring[ring->wptr++] = v; wptr &= ptr_mask.
amdgpu_ring_write(rn, v) ==
    [rn EXCEPT !.buf = [x \in (DOMAIN rn.buf) \cup {rn.wptr} |->
                            IF x = rn.wptr THEN v ELSE rn.buf[x]],
               !.wptr = (rn.wptr + 1) % RingDw,
               !.count_dw = rn.count_dw - 1]

\* uvd_v6_0_ring_set_wptr: WREG32(mmUVD_RBC_RB_WPTR, ring->wptr).
uvd_v6_0_ring_set_wptr(rg, rn) == WREG32(rg, "mmUVD_RBC_RB_WPTR", Bits(rn.wptr))

\* Whether the VCPU is running and fetching from the ring.
VcpuFetching(rg) ==
    /\ rg["mmUVD_RBC_RB_CNTL"] \cap UVD_RBC_RB_CNTL__RB_NO_FETCH_MASK = {}
    /\ rg["mmUVD_SOFT_RESET"] \cap UVD_SOFT_RESET__VCPU_SOFT_RESET_MASK = {}
    /\ 9 \in rg["mmUVD_VCPU_CNTL"]
    /\ 1 \in rg["mmUVD_STATUS"]

\* The VCPU consumes one (header, value) pair below the hardware write
\* pointer: it writes the value to the register the header addresses and
\* advances the hardware read pointer.  It runs concurrently with the driver.
vcpu_fetch ==
    /\ VcpuFetching(regs)
    /\ LET rp == Val(regs["mmUVD_RBC_RB_RPTR"])
           wp == Val(regs["mmUVD_RBC_RB_WPTR"])
       IN  /\ rp # wp
           /\ rp \in DOMAIN ring.buf /\ ((rp + 1) % RingDw) \in DOMAIN ring.buf
           /\ LET hdr == ring.buf[rp]
                  v   == ring.buf[(rp + 1) % RingDw]
                  rg1 == WREG32(regs, hdr.reg, v)
              IN  regs' = WREG32(rg1, "mmUVD_RBC_RB_RPTR", Bits((rp + 2) % RingDw))
    /\ hist' = [hist EXCEPT !.lastStop = {}]
    /\ UNCHANGED <<ring, dev, pc, op, idx, i, j, r, status>>

---------------------------------------------------------------------------
(* uvd_v6_0_ring_test_ring                                                 *)

\* Lines 533-534: the packet of the ring test.
test_packet == << PACKET0("mmUVD_CONTEXT_ID", 0), SENTINEL_DEADBEEF >>

\* Line 526: WREG32(mmUVD_CONTEXT_ID, 0xCAFEDEAD).
test_ctx ==
    /\ pc = "test_ctx"
    /\ regs' = WREG32(regs, "mmUVD_CONTEXT_ID", SENTINEL_CAFEDEAD)
    /\ hist' = [hist EXCEPT !.polls = 0, !.sawBeef = FALSE, !.lockFailed = FALSE,
                            !.bufAtTest = ring.buf, !.wptrAtTest = ring.wptr,
                            !.lastStop = {}]
    /\ pc' = "test_lock"
    /\ UNCHANGED <<ring, dev, op, idx, i, j, r, status>>

\* Lines 527-532: amdgpu_ring_lock(ring, 3); its error is returned.
test_lock ==
    /\ pc = "test_lock"
    /\ \E ok \in BOOLEAN :
         IF ok
         THEN /\ ring' = amdgpu_ring_lock(ring, 3)
              /\ r' = "0" /\ pc' = "test_write" /\ idx' = 1
              /\ hist' = [hist EXCEPT !.hwWptrAtLock = regs["mmUVD_RBC_RB_WPTR"]]
         ELSE /\ r' = "-ENOMEM" /\ pc' = "test_ret"
              /\ hist' = [hist EXCEPT !.lockFailed = TRUE]
              /\ UNCHANGED <<ring, idx>>
    /\ UNCHANGED <<regs, dev, op, i, j, status>>

\* Lines 533-534: one amdgpu_ring_write of the test packet.
test_write ==
    /\ pc = "test_write"
    /\ ring' = amdgpu_ring_write(ring, test_packet[idx])
    /\ IF idx < Len(test_packet)
       THEN idx' = idx + 1 /\ UNCHANGED pc
       ELSE pc' = "test_commit" /\ idx' = 0
    /\ UNCHANGED <<regs, dev, op, i, j, r, status, hist>>

\* Line 535: amdgpu_ring_unlock_commit(ring), then i = 0.
test_commit ==
    /\ pc = "test_commit"
    /\ regs' = uvd_v6_0_ring_set_wptr(regs, ring)
    /\ i' = 0 /\ pc' = "test_poll"
    /\ UNCHANGED <<ring, dev, op, idx, j, r, status, hist>>

\* Lines 536-541: one turn of the poll loop.
test_poll ==
    /\ pc = "test_poll"
    /\ IF i < dev.usec_timeout
       THEN /\ status' = regs["mmUVD_CONTEXT_ID"]
            /\ hist' = [hist EXCEPT !.polls = @ + 1,
                          !.sawBeef = @ \/ regs["mmUVD_CONTEXT_ID"] = SENTINEL_DEADBEEF]
            /\ IF regs["mmUVD_CONTEXT_ID"] = SENTINEL_DEADBEEF
               THEN pc' = "test_result" /\ i' = i
               ELSE pc' = "test_poll" /\ i' = i + 1
       ELSE pc' = "test_result" /\ UNCHANGED <<i, status, hist>>
    /\ UNCHANGED <<regs, ring, dev, op, idx, j, r>>

\* A variant of lines 543-551 whose bound test is off by one.
test_result_off_by_one ==
    /\ pc = "test_result"
    /\ r' = IF i <= dev.usec_timeout THEN r ELSE "-EINVAL"
    /\ pc' = "test_ret"
    /\ UNCHANGED <<regs, ring, dev, op, idx, i, j, status, hist>>

\* Lines 543-551: success when the loop was left early, -EINVAL otherwise.
test_result ==
    /\ pc = "test_result"
    /\ r' = IF i < dev.usec_timeout THEN r ELSE "-EINVAL"
    /\ pc' = "test_ret"
    /\ UNCHANGED <<regs, ring, dev, op, idx, i, j, status, hist>>

\* The ring test returns r to hw_init (line 154).
test_return ==
    /\ pc = "test_ret"
    /\ pc' = "hw_init_tested"
    /\ UNCHANGED <<regs, ring, dev, op, idx, i, j, r, status, hist>>

---------------------------------------------------------------------------
(* uvd_v6_0_hw_init                                                        *)

\* Lines 166-183: the semaphore-timeout program.
hw_init_program ==
    << PACKET0("mmUVD_SEMA_WAIT_FAULT_TIMEOUT_CNTL", 0), Bits(1048575),
       PACKET0("mmUVD_SEMA_WAIT_INCOMPLETE_TIMEOUT_CNTL", 0), Bits(1048575),
       PACKET0("mmUVD_SEMA_SIGNAL_INCOMPLETE_TIMEOUT_CNTL", 0), Bits(1048575),
       PACKET0("mmUVD_SEMA_TIMEOUT_STATUS", 0), Bits(8),
       PACKET0("mmUVD_SEMA_CNTL", 0), Bits(3) >>

\* Lines 150-154: on a failed start go to done, else mark the ring ready and
\* run the ring test.
hw_init_started ==
    /\ pc = "hw_init_started"
    /\ IF r # "0"
       THEN pc' = "hw_init_done" /\ UNCHANGED ring
       ELSE pc' = "test_ctx" /\ ring' = [ring EXCEPT !.ready = TRUE]
    /\ UNCHANGED <<regs, dev, op, idx, i, j, r, status, hist>>

\* Lines 155-158: a failed ring test marks the ring not ready.
hw_init_tested ==
    /\ pc = "hw_init_tested"
    /\ IF r # "0"
       THEN pc' = "hw_init_done" /\ ring' = [ring EXCEPT !.ready = FALSE]
       ELSE pc' = "hw_init_lock" /\ UNCHANGED ring
    /\ UNCHANGED <<regs, dev, op, idx, i, j, r, status, hist>>

\* Lines 160-164: amdgpu_ring_lock(ring, 10); on failure go to done.
hw_init_lock ==
    /\ pc = "hw_init_lock"
    /\ \E ok \in BOOLEAN :
         IF ok
         THEN /\ ring' = amdgpu_ring_lock(ring, 10)
              /\ r' = "0" /\ pc' = "hw_init_write" /\ idx' = 1
              /\ hist' = [hist EXCEPT !.hwWptrAtLock = regs["mmUVD_RBC_RB_WPTR"],
                                      !.lockFailed = FALSE]
         ELSE /\ r' = "-ENOMEM" /\ pc' = "hw_init_done"
              /\ hist' = [hist EXCEPT !.lockFailed = TRUE]
              /\ UNCHANGED <<ring, idx>>
    /\ UNCHANGED <<regs, dev, op, i, j, status>>

\* A variant of the word write that commits the write pointer after each word.
hw_init_write_commits_each ==
    /\ pc = "hw_init_write"
    /\ ring' = amdgpu_ring_write(ring, hw_init_program[idx])
    /\ regs' = uvd_v6_0_ring_set_wptr(regs, ring')
    /\ IF idx < Len(hw_init_program)
       THEN idx' = idx + 1 /\ UNCHANGED pc
       ELSE pc' = "hw_init_commit" /\ idx' = 0
    /\ UNCHANGED <<dev, op, i, j, r, status, hist>>

\* Lines 166-183: one amdgpu_ring_write of the semaphore-timeout program.
hw_init_write ==
    /\ pc = "hw_init_write"
    /\ ring' = amdgpu_ring_write(ring, hw_init_program[idx])
    /\ IF idx < Len(hw_init_program)
       THEN idx' = idx + 1 /\ UNCHANGED pc
       ELSE pc' = "hw_init_commit" /\ idx' = 0
    /\ UNCHANGED <<regs, dev, op, i, j, r, status, hist>>

\* Line 185: amdgpu_ring_unlock_commit(ring).
hw_init_commit ==
    /\ pc = "hw_init_commit"
    /\ regs' = uvd_v6_0_ring_set_wptr(regs, ring)
    /\ pc' = "hw_init_done"
    /\ UNCHANGED <<ring, dev, op, idx, i, j, r, status, hist>>

\* Lines 187-191: return r (to the owning driver, or through resume).
hw_init_done ==
    /\ pc = "hw_init_done"
    /\ pc' = "done"
    /\ UNCHANGED <<regs, ring, dev, op, idx, i, j, r, status, hist>>

---------------------------------------------------------------------------
(* uvd_v6_0_is_idle and uvd_v6_0_wait_for_idle                             *)

\* Line 612: !(RREG32(mmSRBM_STATUS) & SRBM_STATUS__UVD_BUSY_MASK)
is_idle(srbm_status) == (srbm_status \cap SRBM_STATUS__UVD_BUSY_MASK) = {}

\* What a read of SRBM_STATUS may return: the engine decides the busy bit.
SrbmStatusReads == { {}, SRBM_STATUS__UVD_BUSY_MASK, {0}, {0} \cup SRBM_STATUS__UVD_BUSY_MASK }

\* uvd_v6_0_is_idle
Call_is_idle ==
    /\ pc = "idle" /\ op' = "is_idle"
    /\ \E v \in SrbmStatusReads :
         /\ status' = v
         /\ r' = IF is_idle(v) THEN "true" ELSE "false"
    /\ pc' = "done"
    /\ UNCHANGED <<regs, ring, dev, idx, i, j, hist>>

\* uvd_v6_0_wait_for_idle, line 620: i = 0.
Call_wait_for_idle ==
    /\ pc = "idle" /\ op' = "wait_for_idle"
    /\ pc' = "wfi_poll" /\ i' = 0
    /\ UNCHANGED <<regs, ring, dev, idx, j, r, status, hist>>

\* A variant of the poll loop that returns 0 when the reads are used up.
wfi_poll_timeout_ok ==
    /\ pc = "wfi_poll"
    /\ IF i < dev.usec_timeout
       THEN \E v \in SrbmStatusReads :
              /\ status' = v
              /\ hist' = [hist EXCEPT !.wreads = @ + 1, !.lastBusy = (19 \in v),
                                      !.allBusy = @ /\ (19 \in v)]
              /\ IF (v \cap SRBM_STATUS__UVD_BUSY_MASK) = {}
                 THEN r' = "0" /\ pc' = "done" /\ i' = i
                 ELSE i' = i + 1 /\ UNCHANGED <<r, pc>>
       ELSE r' = "0" /\ pc' = "done" /\ UNCHANGED <<i, status, hist>>
    /\ UNCHANGED <<regs, ring, dev, op, idx, j>>

\* Lines 620-624: one turn of the poll loop, or return -ETIMEDOUT.
wfi_poll ==
    /\ pc = "wfi_poll"
    /\ IF i < dev.usec_timeout
       THEN \E v \in SrbmStatusReads :
              /\ status' = v
              /\ hist' = [hist EXCEPT !.wreads = @ + 1, !.lastBusy = (19 \in v),
                                      !.allBusy = @ /\ (19 \in v)]
              /\ IF (v \cap SRBM_STATUS__UVD_BUSY_MASK) = {}
                 THEN r' = "0" /\ pc' = "done" /\ i' = i
                 ELSE i' = i + 1 /\ UNCHANGED <<r, pc>>
       ELSE r' = "-ETIMEDOUT" /\ pc' = "done" /\ UNCHANGED <<i, status, hist>>
    /\ UNCHANGED <<regs, ring, dev, op, idx, j>>

---------------------------------------------------------------------------
(* The lifecycle specification                                             *)

Next ==
    \/ Call_hw_init \/ Call_hw_fini \/ Call_suspend \/ Call_resume
    \/ Call_soft_reset \/ Call_set_powergating_state
    \/ Call_is_idle \/ Call_wait_for_idle \/ Call_set_interrupt_state \/ Return
    \/ start_pre_step \/ start_poll_read \/ start_check
    \/ start_retry_assert \/ start_retry_deassert \/ start_after_loop
    \/ start_post_step \/ start_return
    \/ stop_step \/ stop_return \/ hw_fini_mark \/ soft_reset_srbm
    \/ hw_init_started \/ test_ctx \/ test_lock \/ test_write \/ test_commit
    \/ test_poll \/ test_result \/ test_return
    \/ hw_init_tested \/ hw_init_lock \/ hw_init_write \/ hw_init_commit
    \/ hw_init_done
    \/ wfi_poll
    \/ vcpu_fetch

Spec == Init /\ [][Next]_vars

---------------------------------------------------------------------------
(* The layout specification: mc_resume over many firmware sizes            *)

\* Firmware sizes around every page boundary up to MaxFwPages pages, and the
\* 100000 bytes of the documented scenario.
LayoutFwSizes ==
    {p * AMDGPU_GPU_PAGE_SIZE + d : p \in 0..MaxFwPages,
                                    d \in {0, 1, 4091, 4092, 4093, 4095}}
    \cup {100000}

\* A whole straight-line block run from registers rg and ring rn.
RECURSIVE RunFrom(_, _, _, _)
RunFrom(blk, k, rg, rn) ==
    IF k > Len(blk) THEN [regs |-> rg, ring |-> rn]
    ELSE RunFrom(blk, k + 1, ExecRegs(blk[k], rg, rn), ExecRing(blk[k], rg, rn))

RunBlock(blk, rg, rn) == RunFrom(blk, 1, rg, rn)

LayoutInit ==
    /\ regs = PowerOnImage
    /\ ring = [ready |-> FALSE, wptr |-> 0, wptr_old |-> 0, count_dw |-> 0, buf |-> <<>>]
    /\ dev \in [fw_size : LayoutFwSizes, uvd_gpu_addr : {UvdGpuAddr},
                ring_gpu_addr : {RingGpuAddr}, is_apu : {FALSE},
                usec_timeout : {UsecTimeout}, sw : {SwInitialized}]
    /\ pc = "idle" /\ op = "none"
    /\ idx = 0 /\ i = 0 /\ j = 0 /\ r = "0" /\ status = {}
    /\ hist = HistInit

\* uvd_v6_0_mc_resume(adev), lines 255-280, as one step.
layout_mc_resume ==
    /\ pc = "idle"
    /\ regs' = RunBlock(mc_resume(dev), regs, ring).regs
    /\ pc' = "mc_done" /\ op' = "mc_resume"
    /\ UNCHANGED <<ring, dev, idx, i, j, r, status, hist>>

LayoutNext == layout_mc_resume

LayoutSpec == LayoutInit /\ [][LayoutNext]_vars

\* The byte offset and the size mc_resume programmed for region k (0, 1, 2):
\* the offset registers hold the offset >> 3.
RegionOffset(k) ==
    8 * Val(regs[CASE k = 0 -> "mmUVD_VCPU_CACHE_OFFSET0"
                   [] k = 1 -> "mmUVD_VCPU_CACHE_OFFSET1"
                   [] OTHER -> "mmUVD_VCPU_CACHE_OFFSET2"])
RegionSize(k) ==
    Val(regs[CASE k = 0 -> "mmUVD_VCPU_CACHE_SIZE0"
               [] k = 1 -> "mmUVD_VCPU_CACHE_SIZE1"
               [] OTHER -> "mmUVD_VCPU_CACHE_SIZE2"])

---------------------------------------------------------------------------
(* The state a start run from power-on leaves behind                       *)

\* start from the power-on registers with the VCPU booting: the prologue, a
\* UVD_STATUS read that shows the booted bit, the epilogue.
FreshReady ==
    LET ring0 == [ready |-> FALSE, wptr |-> 0, wptr_old |-> 0, count_dw |-> 0,
                  buf |-> <<>>]
        pre    == RunBlock(start_prologue(dev), PowerOnImage, ring0)
        booted == [pre.regs EXCEPT !["mmUVD_STATUS"] = @ \cup {1}]
        post   == RunBlock(start_epilogue(dev), booted, pre.ring)
    IN  ReadyState(post.regs, post.ring)

---------------------------------------------------------------------------
(* Claims                                                                  *)

\* C1: the boot poll of start makes at most 10 outer attempts of at most 100
\* UVD_STATUS reads each, its loop counter only grows towards the bound, and
\* a start during which no read showed the booted bit returns non-zero.
C1_BootPollBounded ==
    /\ hist.attempts <= 10 /\ hist.reads <= 100 /\ hist.cycles <= 10
    /\ pc \in {"start_poll", "start_check", "start_retry_assert",
               "start_retry_deassert"} => i < 10
    /\ pc = "start_check" => hist.attempts = i + 1
    /\ (pc = "start_ret" /\ ~hist.booted /\ hist.bootAttempt = 0) =>
           (r # "0" /\ hist.attempts = 10)

\* C1 witness: start has returned -1 after ten attempts of a hundred reads
\* none of which showed the booted bit.
C1_Witness ==
    /\ pc = "start_ret" /\ r = "-1"
    /\ hist.attempts = 10 /\ hist.reads = 100 /\ hist.bootAttempt = 0

\* C2: when UVD_STATUS first shows the booted bit during outer attempt k
\* (1..10), start leaves its loop with r = 0 after exactly k-1 VCPU
\* reset-and-retry cycles, runs the epilogue and returns 0.
C2_ReadyOnAttemptK ==
    /\ (pc = "start_after_loop" /\ hist.bootAttempt # 0) =>
           /\ hist.bootAttempt \in 1..10
           /\ r = "0"
           /\ hist.cycles = hist.bootAttempt - 1
    /\ (pc = "start_check" /\ hist.bootAttempt # 0) =>
           hist.cycles = hist.bootAttempt - 1
    /\ pc = "start_post" => r = "0"
    /\ (pc = "start_ret" /\ hist.booted) => r = "0"

\* C2 witness: booted on the third attempt, two cycles made, r = 0.
C2_Witness ==
    /\ pc = "start_after_loop" /\ hist.bootAttempt = 3
    /\ hist.cycles = 2 /\ r = "0"

\* C3 (as claimed): whenever hw_init returns an error the ring is marked
\* not ready.
C3_ErrorLeavesRingNotReady ==
    (pc = "hw_init_done" /\ r # "0") => ~ring.ready

\* C4: while the words of a ring packet are being written (between
\* amdgpu_ring_lock and the commit) the hardware write pointer
\* UVD_RBC_RB_WPTR keeps the value it had when the ring was locked, which is
\* the old software write pointer, so no word of the unfinished packet is
\* below it; the commit publishes all words at once.
C4_NoPartialPacket ==
    /\ pc \in {"test_write", "test_commit", "hw_init_write", "hw_init_commit"} =>
           /\ regs["mmUVD_RBC_RB_WPTR"] = hist.hwWptrAtLock
           /\ Val(regs["mmUVD_RBC_RB_WPTR"]) = ring.wptr_old
           /\ ring.wptr # ring.wptr_old =>
                  regs["mmUVD_RBC_RB_WPTR"] # Bits(ring.wptr)
    /\ pc = "test_poll" =>
           /\ regs["mmUVD_RBC_RB_WPTR"] = Bits(ring.wptr)
           /\ ring.wptr = ring.wptr_old + 2
    /\ (pc = "hw_init_done" /\ r = "0") =>
           /\ regs["mmUVD_RBC_RB_WPTR"] = Bits(ring.wptr)
           /\ ring.wptr = ring.wptr_old + 10

\* C4 witness: five of the ten words of the semaphore-timeout program are
\* written, the VCPU is fetching, and the hardware write pointer still has its
\* value from before the lock.
C4_Witness ==
    /\ pc = "hw_init_write" /\ idx = 6
    /\ ring.wptr = ring.wptr_old + 5
    /\ VcpuFetching(regs)
    /\ regs["mmUVD_RBC_RB_WPTR"] = hist.hwWptrAtLock

\* C5: stop leaves ring control at 0x11010101, the VCPU in reset, its clock
\* disabled and the bus bridge unstalled; a stop that follows a stop ends in
\* the registers the first one left.
C5_StopIdempotent ==
    pc = "stop_ret" =>
        /\ regs["mmUVD_RBC_RB_CNTL"] = RB_CNTL_IDLE
        /\ 3 \in regs["mmUVD_SOFT_RESET"]
        /\ regs["mmUVD_VCPU_CNTL"] = {}
        /\ 8 \notin regs["mmUVD_LMI_CTRL2"]
        /\ \A s \in hist.lastStop : regs = s

\* C5 witness: a stop has completed right after another stop.
C5_Witness ==
    /\ pc = "stop_ret" /\ hist.lastStop # {}
    /\ \A s \in hist.lastStop : regs = s

\* C6: a successful start entered after a stop ends in the ready state of a
\* start run from power-on (registers written by start, hardware read and
\* write pointers, software write pointer).
C6_StopStartSameReady ==
    (pc = "start_ret" /\ r = "0" /\ hist.afterStop) =>
        ReadyState(regs, ring) = FreshReady

\* C6 witness: a start after a stop has succeeded on a ring that had been
\* written before.
C6_Witness ==
    /\ pc = "start_ret" /\ r = "0" /\ hist.afterStop
    /\ DOMAIN ring.buf # {}
    /\ ReadyState(regs, ring) = FreshReady

\* C7 (as claimed): the three region offsets are strictly increasing and each
\* is a multiple of the GPU page size.
C7_OffsetsIncreasingAndPageAligned ==
    pc = "mc_done" =>
        /\ RegionOffset(0) < RegionOffset(1) /\ RegionOffset(1) < RegionOffset(2)
        /\ \A k \in 0..2 : RegionOffset(k) % 4096 = 0

\* C7 (amended): the three region offsets are strictly increasing, each
\* region's size is a multiple of the GPU page size, and each offset is the
\* firmware base offset plus a multiple of the page size.
C7_OffsetsIncreasingAlignedFromBase ==
    pc = "mc_done" =>
        /\ RegionOffset(0) < RegionOffset(1) /\ RegionOffset(1) < RegionOffset(2)
        /\ \A k \in 0..2 : RegionSize(k) % 4096 = 0
        /\ \A k \in 0..2 : (RegionOffset(k) - RegionOffset(0)) % 4096 = 0
        /\ RegionOffset(0) = AMDGPU_UVD_FIRMWARE_OFFSET

\* C7 witness: mc_resume has run for an image that ends one byte past a page.
C7_Witness ==
    /\ pc = "mc_done" /\ dev.fw_size = 4097
    /\ RegionOffset(1) = AMDGPU_UVD_FIRMWARE_OFFSET + 8192

\* C8: mc_resume lays the regions out contiguously from the firmware base
\* offset: the cache size is the least page multiple >= fw size + 4, the
\* stack and heap have their fixed sizes, each offset is the previous offset
\* plus the previous size; 100000 bytes give a cache of 102400.
C8_ContiguousLayout ==
    pc = "mc_done" =>
        /\ RegionOffset(0) = AMDGPU_UVD_FIRMWARE_OFFSET
        /\ RegionSize(0) % 4096 = 0
        /\ RegionSize(0) >= dev.fw_size + 4
        /\ RegionSize(0) - 4096 < dev.fw_size + 4
        /\ RegionOffset(1) = RegionOffset(0) + RegionSize(0)
        /\ RegionSize(1) = AMDGPU_UVD_STACK_SIZE
        /\ RegionOffset(2) = RegionOffset(1) + RegionSize(1)
        /\ RegionSize(2) = AMDGPU_UVD_HEAP_SIZE
        /\ dev.fw_size = 100000 =>
               (RegionSize(0) = 102400 /\ RegionOffset(1) = AMDGPU_UVD_FIRMWARE_OFFSET + 102400)

\* C8 witness: the documented scenario has been laid out.
C8_Witness ==
    /\ pc = "mc_done" /\ dev.fw_size = 100000
    /\ RegionSize(0) = 102400
    /\ RegionOffset(2) = 256 + 102400 + 1048576

\* C9: the ring test writes 0xCAFEDEAD to UVD_CONTEXT_ID, commits one packet
\* that writes 0xDEADBEEF to it and polls at most usec_timeout times; it
\* returns 0 exactly when a poll read 0xDEADBEEF, -EINVAL when none did, and
\* the lock error, with the ring untouched, when the ring cannot be locked.
C9_RingTest ==
    /\ hist.polls <= dev.usec_timeout
    /\ pc \in {"test_lock", "test_write", "test_commit"} =>
           regs["mmUVD_CONTEXT_ID"] = SENTINEL_CAFEDEAD
    /\ pc \in {"test_poll", "test_result"} =>
           /\ ring.buf[ring.wptr_old] = PACKET0("mmUVD_CONTEXT_ID", 0)
           /\ ring.buf[ring.wptr_old + 1] = SENTINEL_DEADBEEF
           /\ ring.wptr = ring.wptr_old + 2
           /\ regs["mmUVD_RBC_RB_WPTR"] = Bits(ring.wptr)
           /\ regs["mmUVD_CONTEXT_ID"] \in {SENTINEL_CAFEDEAD, SENTINEL_DEADBEEF}
    /\ pc = "test_ret" =>
           /\ (r = "0") <=> hist.sawBeef
           /\ (~hist.lockFailed /\ ~hist.sawBeef) =>
                  (r = "-EINVAL" /\ hist.polls = dev.usec_timeout)
           /\ hist.lockFailed =>
                  /\ r = "-ENOMEM" /\ hist.polls = 0
                  /\ ring.buf = hist.bufAtTest /\ ring.wptr = hist.wptrAtTest
                  /\ regs["mmUVD_RBC_RB_WPTR"] = Bits(ring.wptr)

\* C9 witness: the VCPU executed the packet after the first poll and the
\* second poll read 0xDEADBEEF.
C9_Witness ==
    /\ pc = "test_ret" /\ r = "0"
    /\ hist.sawBeef /\ hist.polls = 2

\* C10: wait_for_idle reads SRBM_STATUS at most usec_timeout times, goes on
\* only while every read showed the busy bit, returns 0 on the first read
\* that is_idle accepts and -ETIMEDOUT when all usec_timeout reads were busy.
C10_WaitForIdle ==
    /\ hist.wreads <= dev.usec_timeout
    /\ pc = "wfi_poll" => (hist.allBusy /\ hist.wreads = i)
    /\ (pc = "done" /\ op = "wait_for_idle") =>
           /\ r \in {"0", "-ETIMEDOUT"}
           /\ r = "0" => (is_idle(status) /\ ~hist.lastBusy /\ hist.wreads >= 1)
           /\ r = "-ETIMEDOUT" =>
                  (hist.allBusy /\ hist.wreads = dev.usec_timeout)
           /\ hist.allBusy => r = "-ETIMEDOUT"

\* C10 witness: wait_for_idle returned 0 on its second read.
C10_Witness ==
    /\ pc = "done" /\ op = "wait_for_idle" /\ r = "0"
    /\ hist.wreads = 2 /\ is_idle(status)

---------------------------------------------------------------------------
(* Reading the write trace                                                 *)

\* The writes of the running (or last) start of the call.
StartTrace == SubSeq(hist.trace, hist.startAt + 1, Len(hist.trace))

\* The registers a trace writes, in order.
TraceRegs(t) == [k \in 1..Len(t) |-> t[k].reg]

\* The entries of a trace that write one of the registers rs.
OnRegs(t, rs) == LET hit(e) == e.reg \in rs IN SelectSeq(t, hit)

\* The position of the first write of reg in t (0 when there is none).
FirstPos(t, reg) ==
    IF \E k \in 1..Len(t) : t[k].reg = reg
    THEN CHOOSE k \in 1..Len(t) : t[k].reg = reg /\ \A m \in 1..(k - 1) : t[m].reg # reg
    ELSE 0

\* t is what uvd_v6_0_stop writes (lines 438-452): ring control to the idle
\* value, bridge stalled (1 ms), VCPU in reset (5 ms), VCPU clock off, bridge
\* unstalled.
IsStopTrace(t) ==
    /\ Len(t) = 5
    /\ t[1] = [reg |-> "mmUVD_RBC_RB_CNTL", val |-> {0, 8, 16, 24, 28}, ms |-> 0]
    /\ t[2].reg = "mmUVD_LMI_CTRL2" /\ 8 \in t[2].val /\ t[2].ms = 1
    /\ t[3] = [reg |-> "mmUVD_SOFT_RESET", val |-> {3}, ms |-> 5]
    /\ t[4] = [reg |-> "mmUVD_VCPU_CNTL", val |-> {}, ms |-> 0]
    /\ t[5].reg = "mmUVD_LMI_CTRL2" /\ 8 \notin t[5].val /\ t[5].ms = 0

\* The registers uvd_v6_0_start writes before its first UVD_STATUS read, in
\* the order of lines 298-358.
PrologueWriteOrder ==
    << "mmUVD_POWER_STATUS",
       "mmUVD_LMI_VCPU_CACHE_64BIT_BAR_LOW", "mmUVD_LMI_VCPU_CACHE_64BIT_BAR_HIGH",
       "mmUVD_VCPU_CACHE_OFFSET0", "mmUVD_VCPU_CACHE_SIZE0",
       "mmUVD_VCPU_CACHE_OFFSET1", "mmUVD_VCPU_CACHE_SIZE1",
       "mmUVD_VCPU_CACHE_OFFSET2", "mmUVD_VCPU_CACHE_SIZE2",
       "mmUVD_CGC_GATE", "mmUVD_MASTINT_EN", "mmUVD_LMI_CTRL2", "mmUVD_SOFT_RESET",
       "mmSRBM_SOFT_RESET", "mmUVD_LMI_CTRL", "mmUVD_LMI_SWAP_CNTL",
       "mmUVD_MP_SWAP_CNTL", "mmUVD_MPC_SET_MUXA0", "mmUVD_MPC_SET_MUXA1",
       "mmUVD_MPC_SET_MUXB0", "mmUVD_MPC_SET_MUXB1", "mmUVD_MPC_SET_ALU",
       "mmUVD_MPC_SET_MUX", "mmUVD_SOFT_RESET", "mmUVD_VCPU_CNTL",
       "mmUVD_LMI_CTRL2", "mmUVD_SOFT_RESET" >>

\* The registers uvd_v6_0_start writes after the boot poll, in the order of
\* lines 389-423.
EpilogueWriteOrder ==
    << "mmUVD_MASTINT_EN", "mmUVD_STATUS", "mmUVD_RBC_RB_CNTL",
       "mmUVD_RBC_RB_WPTR_CNTL", "mmUVD_RBC_RB_RPTR_ADDR",
       "mmUVD_LMI_RBC_RB_64BIT_BAR_LOW", "mmUVD_LMI_RBC_RB_64BIT_BAR_HIGH",
       "mmUVD_RBC_RB_RPTR", "mmUVD_RBC_RB_WPTR", "mmUVD_RBC_RB_CNTL" >>

\* The thread is at the first RREG32(mmUVD_STATUS) of uvd_v6_0_start (line
\* 365 with i = 0, j = 0): every write of lines 297-359 is made, none of the
\* boot loop.
AtFirstRead == pc = "start_poll" /\ i = 0 /\ j = 0

\* The states of the boot loop right after one of its register writes or its
\* entry (lines 361, 375-380): in every other state of the loop the writes made
\* so far are those of such a state, the loop only reads in between.
AfterLoopWrite ==
    \/ pc = "start_poll" /\ j = 0
    \/ pc \in {"start_retry_deassert", "start_after_loop"}

\* The thread is inside uvd_v6_0_start, before the test of line 384.
InStartLoop == pc \in {"start_poll", "start_check", "start_retry_assert",
                       "start_retry_deassert", "start_after_loop"}

---------------------------------------------------------------------------
(* Claims C12, C13, C15 - C19                                              *)

\* C12: suspend and resume run the memory step first and the hardware step
\* second: on a non-APU device the memory step has succeeded before hw_fini
\* or hw_init writes anything, suspend ends with the engine stopped and the
\* ring not ready; on an APU the memory step is skipped and only the hardware
\* step runs; when the memory step fails its error is returned and no
\* register has been written.
C12_MemoryStepThenHardwareStep ==
    /\ hist.mem = "skipped" => (dev.is_apu /\ op \in {"hw_fini", "hw_init"})
    /\ hist.mem = "ok" => (~dev.is_apu /\ op \in {"hw_fini", "hw_init"})
    /\ hist.mem = "failed" =>
           /\ ~dev.is_apu
           /\ pc = "done" /\ op \in {"suspend", "resume"}
           /\ r # "0" /\ hist.trace = <<>>
    /\ op \in {"suspend", "resume"} => hist.mem = "failed"
    /\ (hist.mem \in {"ok", "skipped"} /\ pc \in {"stop_seq", "start_pre"} /\ idx = 1) =>
           hist.trace = <<>>
    /\ (hist.mem \in {"ok", "skipped"} /\ op = "hw_fini" /\ pc = "done") =>
           /\ r = "0" /\ ~ring.ready
           /\ IsStopTrace(hist.trace)
           /\ 3 \in regs["mmUVD_SOFT_RESET"] /\ regs["mmUVD_VCPU_CNTL"] = {}

\* C12 witness: suspend of a non-APU device has returned 0 after the memory
\* step and hw_fini.
C12_Witness ==
    /\ pc = "done" /\ op = "hw_fini" /\ hist.mem = "ok" /\ ~dev.is_apu
    /\ r = "0" /\ ~ring.ready /\ Len(hist.trace) = 5

\* C13: soft_reset writes what stop writes, then asserts the SRBM soft-reset
\* bit of the UVD with a 5 ms delay, then writes what start writes; start
\* deasserts the SRBM bit before the VCPU is released and polled; soft_reset
\* returns what start returned.
C13_SoftResetIsStopPulseStart ==
    /\ (op = "soft_reset" /\ pc \in {"stop_ret", "soft_reset_srbm"}) =>
           IsStopTrace(hist.trace)
    /\ (op = "soft_reset" /\ (pc = "start_pre" \/ InStartLoop)) =>
           /\ hist.startAt = 6
           /\ IsStopTrace(SubSeq(hist.trace, 1, 5))
           /\ hist.trace[6].reg = "mmSRBM_SOFT_RESET"
           /\ 18 \in hist.trace[6].val /\ hist.trace[6].ms = 5
    /\ (op = "soft_reset" /\ pc = "start_pre" /\ idx = 1) =>
           18 \in regs["mmSRBM_SOFT_RESET"]
    /\ (op = "soft_reset" /\ pc = "start_pre" /\ 3 \notin regs["mmUVD_SOFT_RESET"]
            /\ FirstPos(StartTrace, "mmUVD_SOFT_RESET") # 0) =>
           18 \notin regs["mmSRBM_SOFT_RESET"]
    /\ (op = "soft_reset" /\ InStartLoop) =>
           /\ 18 \notin regs["mmSRBM_SOFT_RESET"]
           /\ SubSeq(TraceRegs(StartTrace), 1, 27) = PrologueWriteOrder
    /\ (op = "soft_reset" /\ pc = "start_ret" /\ r = "0") =>
           TraceRegs(hist.trace) = EpilogueWriteOrder
    /\ (op = "soft_reset" /\ pc = "done") =>
           (r = hist.startRet /\ r \in {"0", "-1"})

\* C13 witness: soft_reset has returned start's 0 with the SRBM bit
\* deasserted again.
C13_Witness ==
    /\ op = "soft_reset" /\ pc = "done" /\ r = "0" /\ hist.startRet = "0"
    /\ 18 \notin regs["mmSRBM_SOFT_RESET"]

\* C15: set_powergating_state with GATE makes exactly the writes of stop and
\* returns 0; with another state it makes exactly the writes of start and
\* returns what start returned, the failure of the boot poll included.
C15_PowergatingMapsToSequencer ==
    /\ op = "pg_gate" => pc \in {"stop_seq", "stop_ret", "done"}
    /\ (op = "pg_gate" /\ pc \in {"stop_ret", "done"}) => IsStopTrace(hist.trace)
    /\ (op = "pg_gate" /\ pc = "done") => r = "0"
    /\ op = "pg_ungate" =>
           /\ pc \in {"start_pre", "start_post", "start_ret", "done"} \/ InStartLoop
           /\ hist.startAt = 0
    /\ (op = "pg_ungate" /\ InStartLoop) =>
           SubSeq(TraceRegs(hist.trace), 1, 27) = PrologueWriteOrder
    /\ (op = "pg_ungate" /\ pc \in {"start_ret", "done"} /\ r = "0") =>
           TraceRegs(hist.trace) = EpilogueWriteOrder
    /\ (op = "pg_ungate" /\ pc \in {"start_ret", "done"} /\ r # "0") =>
           /\ Len(hist.trace) = 27 + 2 * 10
           /\ ~hist.booted
    /\ (op = "pg_ungate" /\ pc = "done") => (r = hist.startRet /\ r \in {"0", "-1"})

\* C15 witness: the ungate call has returned the -1 of an exhausted boot poll.
C15_Witness ==
    /\ op = "pg_ungate" /\ pc = "done" /\ r = "-1" /\ hist.startRet = "-1"

\* C16: in every start the reset-domain writes come in this order: bridge
\* stalled, all subblocks in reset in one write, SRBM soft reset of the UVD
\* deasserted, memory-controller control word, all subblock resets but the
\* VCPU's deasserted, VCPU clock enabled, bridge unstalled, VCPU reset
\* deasserted; UVD_STATUS is not read before; the VCPU is never out of reset
\* with its clock off or the bridge stalled once start has put it in reset.
C16_ResetDomainOrder ==
    /\ pc = "start_pre" => hist.attempts = 0
    /\ AtFirstRead =>
           LET t == OnRegs(SubSeq(StartTrace, 1, 27),
                           {"mmUVD_LMI_CTRL2", "mmUVD_SOFT_RESET", "mmSRBM_SOFT_RESET",
                            "mmUVD_LMI_CTRL", "mmUVD_VCPU_CNTL"})
           IN  /\ Len(t) = 8
               /\ t[1].reg = "mmUVD_LMI_CTRL2" /\ 8 \in t[1].val /\ t[1].ms = 1
               /\ t[2] = [reg |-> "mmUVD_SOFT_RESET",
                          val |-> {0, 1, 2, 3, 5, 6, 7, 13}, ms |-> 5]
               /\ t[3].reg = "mmSRBM_SOFT_RESET" /\ 18 \notin t[3].val /\ t[3].ms = 5
               /\ t[4].reg = "mmUVD_LMI_CTRL" /\ t[4].val = {6, 8, 9, 13, 20, 21}
               /\ t[5] = [reg |-> "mmUVD_SOFT_RESET", val |-> {3}, ms |-> 5]
               /\ t[6].reg = "mmUVD_VCPU_CNTL" /\ 9 \in t[6].val
               /\ t[7].reg = "mmUVD_LMI_CTRL2" /\ 8 \notin t[7].val
               /\ t[8] = [reg |-> "mmUVD_SOFT_RESET", val |-> {}, ms |-> 10]
    /\ ((pc = "start_pre" \/ InStartLoop)
            /\ 3 \notin regs["mmUVD_SOFT_RESET"]
            /\ LET t == StartTrace
               IN  \E k \in 1..Len(t) : t[k].reg = "mmUVD_SOFT_RESET") =>
           (9 \in regs["mmUVD_VCPU_CNTL"] /\ 8 \notin regs["mmUVD_LMI_CTRL2"])

\* C16 witness: a start entered after a stop is at its first UVD_STATUS read
\* with the VCPU released, clocked and the bridge unstalled.
C16_Witness ==
    /\ pc = "start_poll" /\ i = 0 /\ hist.afterStop /\ hist.attempts = 0
    /\ Len(StartTrace) = 27
    /\ 3 \notin regs["mmUVD_SOFT_RESET"] /\ 9 \in regs["mmUVD_VCPU_CNTL"]

\* C17: on a successful start the write that clears the no-fetch bit of
\* UVD_RBC_RB_CNTL is the last one, after the ring-control word with no-fetch
\* set, the write-back address, the ring base, the zeroed hardware read
\* pointer and the hardware write pointer; then hardware read pointer =
\* hardware write pointer = software write pointer; a failed start writes
\* none of the ring registers.
C17_FetchEnableLast ==
    /\ (pc = "start_ret" /\ r = "0") =>
           LET t == hist.trace
               n == Len(t)
           IN  /\ n = 10
               /\ t[n].reg = "mmUVD_RBC_RB_CNTL" /\ 16 \notin t[n].val
               /\ \A k \in 1..(n - 1) :
                      t[k].reg = "mmUVD_RBC_RB_CNTL" => 16 \in t[k].val
               /\ \A x \in {"mmUVD_RBC_RB_CNTL", "mmUVD_RBC_RB_RPTR_ADDR",
                            "mmUVD_LMI_RBC_RB_64BIT_BAR_LOW",
                            "mmUVD_LMI_RBC_RB_64BIT_BAR_HIGH",
                            "mmUVD_RBC_RB_RPTR", "mmUVD_RBC_RB_WPTR"} :
                      FirstPos(t, x) \in 1..(n - 1)
               /\ t[FirstPos(t, "mmUVD_RBC_RB_RPTR")].val = {}
               /\ FirstPos(t, "mmUVD_RBC_RB_RPTR") < FirstPos(t, "mmUVD_RBC_RB_WPTR")
               /\ regs["mmUVD_RBC_RB_RPTR"] = regs["mmUVD_RBC_RB_WPTR"]
               /\ regs["mmUVD_RBC_RB_WPTR"] = Bits(ring.wptr)
               /\ ring.wptr = 0
    /\ (pc = "start_post" /\ Len(hist.trace) >= 3) => 16 \in regs["mmUVD_RBC_RB_CNTL"]
    /\ (pc = "start_ret" /\ r # "0") =>
           \A k \in 1..Len(StartTrace) :
               StartTrace[k].reg \notin
                   {"mmUVD_RBC_RB_CNTL", "mmUVD_RBC_RB_WPTR_CNTL",
                    "mmUVD_RBC_RB_RPTR_ADDR", "mmUVD_LMI_RBC_RB_64BIT_BAR_LOW",
                    "mmUVD_LMI_RBC_RB_64BIT_BAR_HIGH", "mmUVD_RBC_RB_RPTR",
                    "mmUVD_RBC_RB_WPTR"}

\* C17 witness: a start on a ring that had been written has succeeded, its
\* last write cleared the no-fetch bit and the ring is empty.
C17_Witness ==
    /\ pc = "start_ret" /\ r = "0" /\ DOMAIN ring.buf # {}
    /\ Len(hist.trace) = 10
    /\ 16 \notin regs["mmUVD_RBC_RB_CNTL"]
    /\ regs["mmUVD_RBC_RB_RPTR"] = {} /\ regs["mmUVD_RBC_RB_WPTR"] = {}

\* C18: in start the trap-enable bit of UVD_MASTINT_EN is cleared before the
\* first write of UVD_SOFT_RESET; a write that sets the master interrupt bits
\* happens only after a UVD_STATUS read showed the booted bit; a start whose
\* boot poll is exhausted returns without such a write.
C18_ReadinessBeforeInterruptEnable ==
    /\ (pc = "start_pre" \/ AfterLoopWrite) =>
           LET t == StartTrace
           IN  /\ \A k \in 1..Len(t) :
                      t[k].reg = "mmUVD_SOFT_RESET" =>
                          \E m \in 1..(k - 1) :
                              t[m].reg = "mmUVD_MASTINT_EN" /\ 1 \notin t[m].val
               /\ \A k \in 1..Len(t) :
                      t[k].reg = "mmUVD_MASTINT_EN" => 1 \notin t[k].val
    /\ (\E k \in 1..Len(hist.trace) :
            hist.trace[k].reg = "mmUVD_MASTINT_EN" /\ 1 \in hist.trace[k].val) =>
           hist.booted
    /\ (pc = "start_post" /\ hist.trace # <<>>) => hist.booted
    /\ (pc = "start_ret" /\ r # "0") =>
           /\ ~hist.booted
           /\ 1 \notin regs["mmUVD_MASTINT_EN"]
           /\ \A k \in 1..Len(hist.trace) :
                  hist.trace[k].reg = "mmUVD_MASTINT_EN" =>
                      1 \notin hist.trace[k].val

\* C18 witness: the first write of the epilogue has enabled the master
\* interrupt bits after a booted read.
C18_Witness ==
    /\ pc = "start_post" /\ Len(hist.trace) = 1 /\ hist.booted
    /\ hist.trace[1].reg = "mmUVD_MASTINT_EN"
    /\ {1, 2} \subseteq regs["mmUVD_MASTINT_EN"]

\* C19 (as claimed): by its first status read start has, before the bridge
\* is stalled, cleared the deep-power-gating bit, then written the byte-swap
\* control registers, then programmed the cache/stack/heap offsets and
\* sizes, then disabled clock gating and the trap-enable bit.
C19_FirstFourStepsInOrder ==
    AtFirstRead =>
        LET t == StartTrace
            P(x) == FirstPos(t, x)
        IN  /\ P("mmUVD_POWER_STATUS") = 1
            /\ P("mmUVD_POWER_STATUS") < P("mmUVD_LMI_SWAP_CNTL")
            /\ P("mmUVD_POWER_STATUS") < P("mmUVD_MP_SWAP_CNTL")
            /\ \A x \in {"mmUVD_LMI_SWAP_CNTL", "mmUVD_MP_SWAP_CNTL"} :
                   /\ P(x) < P("mmUVD_VCPU_CACHE_OFFSET0")
                   /\ t[P(x)].val = {}
            /\ P("mmUVD_VCPU_CACHE_SIZE2") < P("mmUVD_CGC_GATE")
            /\ P("mmUVD_CGC_GATE") < P("mmUVD_MASTINT_EN")
            /\ P("mmUVD_MASTINT_EN") < P("mmUVD_LMI_CTRL2")

\* C19 (amended): by its first status read start has, before the bridge is
\* stalled, cleared the deep-power-gating bit, then programmed the cache base
\* and the cache/stack/heap offsets and sizes, then disabled clock gating and
\* the trap-enable bit; the byte-swap control registers are written (zero on
\* a little-endian build) only after the bridge is stalled and the
\* memory-controller control word is programmed, before the VCPU is released.
C19_PowerUpStepsInOrder ==
    AtFirstRead =>
        LET t == StartTrace
            stall == FirstPos(t, "mmUVD_LMI_CTRL2")
            ctrl  == FirstPos(t, "mmUVD_LMI_CTRL")
            clock == FirstPos(t, "mmUVD_VCPU_CNTL")
            swap  == [x \in {"mmUVD_LMI_SWAP_CNTL", "mmUVD_MP_SWAP_CNTL"} |->
                        FirstPos(t, x)]
        IN  /\ FirstPos(t, "mmUVD_POWER_STATUS") = 1 /\ 2 \notin t[1].val
            /\ SubSeq(TraceRegs(t), 2, 9) =
                   << "mmUVD_LMI_VCPU_CACHE_64BIT_BAR_LOW",
                      "mmUVD_LMI_VCPU_CACHE_64BIT_BAR_HIGH",
                      "mmUVD_VCPU_CACHE_OFFSET0", "mmUVD_VCPU_CACHE_SIZE0",
                      "mmUVD_VCPU_CACHE_OFFSET1", "mmUVD_VCPU_CACHE_SIZE1",
                      "mmUVD_VCPU_CACHE_OFFSET2", "mmUVD_VCPU_CACHE_SIZE2" >>
            /\ FirstPos(t, "mmUVD_CGC_GATE") = 10 /\ t[10].val = {}
            /\ FirstPos(t, "mmUVD_MASTINT_EN") = 11 /\ 1 \notin t[11].val
            /\ stall = 12 /\ 8 \in t[12].val
            /\ ctrl > stall
            /\ \A x \in DOMAIN swap :
                   /\ swap[x] > ctrl
                   /\ swap[x] < clock
                   /\ t[swap[x]].val = {}

\* C19 witness: a start is at its first UVD_STATUS read; the byte-swap
\* registers were written as the 16th and 17th register write.
C19_Witness ==
    /\ pc = "start_poll" /\ i = 0 /\ Len(StartTrace) = 27
    /\ FirstPos(StartTrace, "mmUVD_LMI_SWAP_CNTL") = 16
    /\ FirstPos(StartTrace, "mmUVD_MP_SWAP_CNTL") = 17
    /\ FirstPos(StartTrace, "mmUVD_LMI_CTRL2") = 12

\* C14 (as claimed): set_interrupt_state does not report success: a call
\* that has returned has returned an error.
C14_InterruptStateNotSuccess ==
    (op = "set_interrupt_state" /\ pc = "done") => r # "0"

---------------------------------------------------------------------------
(* The software-initialisation specification: sw_init and sw_fini          *)

\* The errors a callee of sw_init / sw_fini may return.
SwErrors == {"-EINVAL", "-ENOMEM"}

SwInit ==
    /\ regs = PowerOnImage
    /\ ring = [ready |-> FALSE, wptr |-> 0, wptr_old |-> 0, count_dw |-> 0, buf |-> <<>>]
    /\ dev \in [fw_size : FwSizes, uvd_gpu_addr : {UvdGpuAddr},
                ring_gpu_addr : {RingGpuAddr}, is_apu : BOOLEAN,
                usec_timeout : {UsecTimeout}, sw : {SwUninitialized}]
    /\ pc = "idle" /\ op = "none"
    /\ idx = 0 /\ i = 0 /\ j = 0 /\ r = "0" /\ status = {}
    /\ hist = HistInit

\* The owning driver calls uvd_v6_0_sw_init on a block that is not software
\* initialised; status keeps the software state at entry.
Call_sw_init ==
    /\ pc = "idle" /\ ~dev.sw.sw_done
    /\ op' = "sw_init" /\ pc' = "sw_init_irq"
    /\ status' = dev.sw
    /\ UNCHANGED <<regs, ring, dev, idx, i, j, r, hist>>

\* Lines 99-101: r = amdgpu_irq_add_id(adev, 124, &adev->uvd.irq); if (r) return r.
sw_init_irq ==
    /\ pc = "sw_init_irq"
    /\ \E res \in {"0"} \cup SwErrors :
         /\ r' = res
         /\ IF res = "0"
            THEN dev' = [dev EXCEPT !.sw.irq = TRUE] /\ pc' = "sw_init_uvd"
            ELSE UNCHANGED dev /\ pc' = "sw_ret"
    /\ UNCHANGED <<regs, ring, op, idx, i, j, status, hist>>

\* Lines 103-105: r = amdgpu_uvd_sw_init(adev); if (r) return r.
sw_init_uvd ==
    /\ pc = "sw_init_uvd"
    /\ \E res \in {"0"} \cup SwErrors :
         /\ r' = res
         /\ IF res = "0"
            THEN dev' = [dev EXCEPT !.sw.bo = TRUE] /\ pc' = "sw_init_resume"
            ELSE UNCHANGED dev /\ pc' = "sw_ret"
    /\ UNCHANGED <<regs, ring, op, idx, i, j, status, hist>>

\* Lines 107-109: r = amdgpu_uvd_resume(adev); if (r) return r.
sw_init_resume ==
    /\ pc = "sw_init_resume"
    /\ \E res \in {"0"} \cup SwErrors :
         /\ r' = res
         /\ IF res = "0"
            THEN dev' = [dev EXCEPT !.sw.fw = TRUE] /\ pc' = "sw_init_ring"
            ELSE UNCHANGED dev /\ pc' = "sw_ret"
    /\ UNCHANGED <<regs, ring, op, idx, i, j, status, hist>>

\* Lines 111-116: r = amdgpu_ring_init(adev, ring, 4096, ...); return r.
sw_init_ring ==
    /\ pc = "sw_init_ring"
    /\ \E res \in {"0"} \cup SwErrors :
         /\ r' = res
         /\ dev' = [dev EXCEPT !.sw.ring = (res = "0") \/ @]
    /\ pc' = "sw_ret"
    /\ UNCHANGED <<regs, ring, op, idx, i, j, status, hist>>

\* The owning driver calls uvd_v6_0_sw_fini on a software-initialised block.
Call_sw_fini ==
    /\ pc = "idle" /\ dev.sw.sw_done
    /\ op' = "sw_fini" /\ pc' = "sw_fini_suspend"
    /\ status' = dev.sw
    /\ UNCHANGED <<regs, ring, dev, idx, i, j, r, hist>>

\* Lines 124-126: r = amdgpu_uvd_suspend(adev); if (r) return r.
sw_fini_suspend ==
    /\ pc = "sw_fini_suspend"
    /\ \E res \in {"0"} \cup SwErrors :
         /\ r' = res
         /\ IF res = "0"
            THEN dev' = [dev EXCEPT !.sw.fw = FALSE] /\ pc' = "sw_fini_uvd"
            ELSE UNCHANGED dev /\ pc' = "sw_ret"
    /\ UNCHANGED <<regs, ring, op, idx, i, j, status, hist>>

\* Lines 128-132: r = amdgpu_uvd_sw_fini(adev); return r.
sw_fini_uvd ==
    /\ pc = "sw_fini_uvd"
    /\ \E res \in {"0"} \cup SwErrors :
         /\ r' = res
         /\ IF res = "0"
            THEN dev' = [dev EXCEPT !.sw.bo = FALSE, !.sw.ring = FALSE]
            ELSE UNCHANGED dev
    /\ pc' = "sw_ret"
    /\ UNCHANGED <<regs, ring, op, idx, i, j, status, hist>>

\* sw_init / sw_fini returns; the owning driver records a success.
sw_return ==
    /\ pc = "sw_ret"
    /\ pc' = "sw_returned"
    /\ dev' = [dev EXCEPT !.sw.sw_done = IF r = "0" THEN (op = "sw_init") ELSE @]
    /\ UNCHANGED <<regs, ring, op, idx, i, j, r, status, hist>>

\* The owning driver goes on.
sw_idle ==
    /\ pc = "sw_returned"
    /\ pc' = "idle" /\ op' = "none" /\ r' = "0" /\ status' = {}
    /\ UNCHANGED <<regs, ring, dev, idx, i, j, hist>>

SwInitNext ==
    \/ Call_sw_init \/ sw_init_irq \/ sw_init_uvd \/ sw_init_resume \/ sw_init_ring
    \/ Call_sw_fini \/ sw_fini_suspend \/ sw_fini_uvd
    \/ sw_return \/ sw_idle

SwInitSpec == SwInit /\ [][SwInitNext]_vars

\* C11 (as claimed): when sw_init has returned an error, the block is not
\* software initialised, the ring descriptor was not constructed by the
\* call, and nothing of the steps that had succeeded is left behind: the
\* software state is the one the call found.
C11_FailedSwInitLeavesNothing ==
    (op = "sw_init" /\ pc = "sw_returned" /\ r # "0") =>
        /\ ~dev.sw.sw_done
        /\ dev.sw.ring = status.ring
        /\ dev.sw = status

---------------------------------------------------------------------------
(* The emit specification: the packet builders of the ring                 *)

\* amdgpu_ring_write takes a uint32_t: a wider argument loses its high half.
u32(v) == v \cap (0..31)

\* fence flags (amdgpu.h)
AMDGPU_FENCE_FLAG_64BIT == 1
AMDGPU_FENCE_FLAG_INT == 2

\* A variant of emit_fence that writes the whole upper half of the address.
uvd_v6_0_ring_emit_fence_no_mask(addr, seq) ==
    << PACKET0("mmUVD_CONTEXT_ID", 0),        u32(seq),
       PACKET0("mmUVD_GPCOM_VCPU_DATA0", 0),  addr \cap (0..31),
       PACKET0("mmUVD_GPCOM_VCPU_DATA1", 0),  upper_32_bits(addr),
       PACKET0("mmUVD_GPCOM_VCPU_CMD", 0),    {},
       PACKET0("mmUVD_GPCOM_VCPU_DATA0", 0),  {},
       PACKET0("mmUVD_GPCOM_VCPU_DATA1", 0),  {},
       PACKET0("mmUVD_GPCOM_VCPU_CMD", 0),    {1} >>

\* uvd_v6_0_ring_emit_fence(ring, addr, seq, flags), lines 468-482: the words
\* it hands to amdgpu_ring_write, in order.  0xffffffff is bits 0..31, 0xff
\* is bits 0..7, 2 is bit 1.
uvd_v6_0_ring_emit_fence(addr, seq) ==
    << PACKET0("mmUVD_CONTEXT_ID", 0),        u32(seq),
       PACKET0("mmUVD_GPCOM_VCPU_DATA0", 0),  addr \cap (0..31),
       PACKET0("mmUVD_GPCOM_VCPU_DATA1", 0),  upper_32_bits(addr) \cap (0..7),
       PACKET0("mmUVD_GPCOM_VCPU_CMD", 0),    {},
       PACKET0("mmUVD_GPCOM_VCPU_DATA0", 0),  {},
       PACKET0("mmUVD_GPCOM_VCPU_DATA1", 0),  {},
       PACKET0("mmUVD_GPCOM_VCPU_CMD", 0),    {1} >>

\* Completion addresses (64 bit): zero, below 4 GiB, within 40 bits, with
\* bits above bit 39, all ones.
EmitAddrs == { {}, {3, 12}, {8, 33, 39}, {12, 32, 40}, {5, 31, 32, 47, 63}, 0..63 }

\* Sequence numbers (64 bit): zero, one, a full low half, with bits above
\* bit 31.
EmitSeqs == { {}, {0}, 0..31, {1, 32}, {2, 40, 63} }

\* The ring as its owner hands it to a packet builder: ready, empty or with
\* the write pointer six words before the wrap.
EmitInit ==
    /\ regs = PowerOnImage
    /\ ring \in [ready : {TRUE}, wptr : {0, RingDw - 6}, wptr_old : {0},
                 count_dw : {0}, buf : {<<>>}]
    /\ dev \in [fw_size : FwSizes, uvd_gpu_addr : {UvdGpuAddr},
                ring_gpu_addr : {RingGpuAddr}, is_apu : BOOLEAN,
                usec_timeout : {UsecTimeout}, sw : {SwInitialized}]
    /\ pc = "idle" /\ op = "none"
    /\ idx = 0 /\ i = 0 /\ j = 0 /\ r = "0" /\ status = {}
    /\ hist = HistInit

\* The fence code locks the ring and calls ring->funcs->emit_fence; status
\* keeps the arguments.
Call_ring_emit_fence ==
    /\ pc = "idle"
    /\ \E addr \in EmitAddrs, seq \in EmitSeqs,
          flags \in {0, AMDGPU_FENCE_FLAG_64BIT, AMDGPU_FENCE_FLAG_INT} :
         status' = [addr |-> addr, seq |-> seq, flags |-> flags]
    /\ ring' = amdgpu_ring_lock(ring, 14)
    /\ op' = "emit_fence" /\ pc' = "emit_fence_write" /\ idx' = 1
    /\ UNCHANGED <<regs, dev, i, j, r, hist>>

\* Lines 468-482: one amdgpu_ring_write of emit_fence; after the last the
\* function returns.
emit_fence_write ==
    /\ pc = "emit_fence_write"
    /\ LET words == uvd_v6_0_ring_emit_fence(status.addr, status.seq)
       IN  /\ ring' = amdgpu_ring_write(ring, words[idx])
           /\ IF idx < Len(words)
              THEN idx' = idx + 1 /\ pc' = pc
              ELSE idx' = 0 /\ pc' = "emit_fence_done"
    /\ UNCHANGED <<regs, dev, op, i, j, r, status, hist>>

\* A variant of emit_semaphore that does not shift the low address window.
uvd_v6_0_ring_emit_semaphore_low_unshifted(addr, emit_wait) ==
    << PACKET0("mmUVD_SEMA_ADDR_LOW", 0),   addr \cap (0..19),
       PACKET0("mmUVD_SEMA_ADDR_HIGH", 0),  ShiftRight(addr, 23) \cap (0..19),
       PACKET0("mmUVD_SEMA_CMD", 0),        {7} \cup (IF emit_wait THEN {0} ELSE {}) >>

\* uvd_v6_0_ring_emit_semaphore(ring, semaphore, emit_wait), lines 497-507,
\* with addr = semaphore->gpu_addr: the words it hands to amdgpu_ring_write.
\* 0x000FFFFF is bits 0..19, 0x80 is bit 7.
uvd_v6_0_ring_emit_semaphore(addr, emit_wait) ==
    << PACKET0("mmUVD_SEMA_ADDR_LOW", 0),   ShiftRight(addr, 3) \cap (0..19),
       PACKET0("mmUVD_SEMA_ADDR_HIGH", 0),  ShiftRight(addr, 23) \cap (0..19),
       PACKET0("mmUVD_SEMA_CMD", 0),        {7} \cup (IF emit_wait THEN {0} ELSE {}) >>

\* Semaphore addresses (64 bit): zero; one with bits in both windows and its
\* copies that differ in bits 0..2 or above bit 42 only; the window edges;
\* all ones.
SemaAddrs == { {}, {3, 22, 23, 42}, {0, 1, 2, 3, 22, 23, 42},
               {3, 22, 23, 42, 43, 63}, {2, 43}, {10, 30}, 0..63 }

\* The semaphore code locks the ring and calls ring->funcs->emit_semaphore;
\* status keeps the arguments.
Call_ring_emit_semaphore ==
    /\ pc = "idle"
    /\ \E addr \in SemaAddrs, emit_wait \in BOOLEAN :
         status' = [addr |-> addr, emit_wait |-> emit_wait]
    /\ ring' = amdgpu_ring_lock(ring, 6)
    /\ op' = "emit_semaphore" /\ pc' = "emit_semaphore_write" /\ idx' = 1
    /\ UNCHANGED <<regs, dev, i, j, r, hist>>

\* Lines 499-507: one amdgpu_ring_write of emit_semaphore; after the last,
\* line 509: return true.
emit_semaphore_write ==
    /\ pc = "emit_semaphore_write"
    /\ LET words == uvd_v6_0_ring_emit_semaphore(status.addr, status.emit_wait)
       IN  /\ ring' = amdgpu_ring_write(ring, words[idx])
           /\ IF idx < Len(words)
              THEN idx' = idx + 1 /\ pc' = pc /\ UNCHANGED r
              ELSE idx' = 0 /\ pc' = "emit_semaphore_done" /\ r' = "true"
    /\ UNCHANGED <<regs, dev, op, i, j, status, hist>>

\* uvd_v6_0_ring_emit_ib(ring, ib), lines 565-570, with gpu_addr = ib->gpu_addr
\* and length_dw = ib->length_dw: the words it hands to amdgpu_ring_write.
uvd_v6_0_ring_emit_ib(gpu_addr, length_dw) ==
    << PACKET0("mmUVD_LMI_RBC_IB_64BIT_BAR_LOW", 0),   lower_32_bits(gpu_addr),
       PACKET0("mmUVD_LMI_RBC_IB_64BIT_BAR_HIGH", 0),  upper_32_bits(gpu_addr),
       PACKET0("mmUVD_RBC_IB_SIZE", 0),                length_dw >>

\* Indirect-buffer addresses (64 bit): zero, 0x200103000, one with bits 31,
\* 32 and 63, all ones.
IbAddrs == { {}, {12, 13, 20, 33}, {8, 31, 32, 63}, 0..63 }

\* Indirect-buffer lengths in words (32 bit): 0, 16, 0xfffff, 0xffffffff.
IbLengths == { {}, {4}, 0..19, 0..31 }

\* The submission code locks the ring and calls ring->funcs->emit_ib; status
\* keeps the fields of ib.
Call_ring_emit_ib ==
    /\ pc = "idle"
    /\ \E gpu_addr \in IbAddrs, length_dw \in IbLengths :
         status' = [gpu_addr |-> gpu_addr, length_dw |-> length_dw]
    /\ ring' = amdgpu_ring_lock(ring, 6)
    /\ op' = "emit_ib" /\ pc' = "emit_ib_write" /\ idx' = 1
    /\ UNCHANGED <<regs, dev, i, j, r, hist>>

\* Lines 565-570: one amdgpu_ring_write of emit_ib; after the last the
\* function returns.
emit_ib_write ==
    /\ pc = "emit_ib_write"
    /\ LET words == uvd_v6_0_ring_emit_ib(status.gpu_addr, status.length_dw)
       IN  /\ ring' = amdgpu_ring_write(ring, words[idx])
           /\ IF idx < Len(words)
              THEN idx' = idx + 1 /\ pc' = pc
              ELSE idx' = 0 /\ pc' = "emit_ib_done"
    /\ UNCHANGED <<regs, dev, op, i, j, r, status, hist>>

\* What amdgpu_uvd_get_create_msg, amdgpu_uvd_get_destroy_msg and fence_wait
\* return: 0 or an error.  They build and submit the session messages, and
\* wait for the fence of the second.
MsgResults == {"0", "-ENOMEM", "-EINVAL"}

\* uvd_v6_0_ring_test_ib, lines 582-583: fence = NULL.
Call_ring_test_ib ==
    /\ pc = "idle"
    /\ op' = "test_ib" /\ pc' = "test_ib_create"
    /\ status' = [fence |-> "NULL"]
    /\ UNCHANGED <<regs, ring, dev, idx, i, j, r, hist>>

\* Lines 585-589: r = amdgpu_uvd_get_create_msg(ring, 1, NULL); on an error
\* goto error.
test_ib_create ==
    /\ pc = "test_ib_create"
    /\ \E res \in MsgResults :
         /\ r' = res
         /\ pc' = IF res # "0" THEN "test_ib_error" ELSE "test_ib_destroy"
    /\ UNCHANGED <<regs, ring, dev, op, idx, i, j, status, hist>>

\* Lines 591-595: r = amdgpu_uvd_get_destroy_msg(ring, 1, &fence); on an error
\* goto error.  On success fence is the fence of the destroy message.
test_ib_destroy ==
    /\ pc = "test_ib_destroy"
    /\ \E res \in MsgResults :
         /\ r' = res
         /\ IF res # "0"
            THEN pc' = "test_ib_error" /\ UNCHANGED status
            ELSE pc' = "test_ib_wait" /\ status' = [fence |-> "held"]
    /\ UNCHANGED <<regs, ring, dev, op, idx, i, j, hist>>

\* Lines 597-602: r = fence_wait(fence, false); on an error goto error, else
\* fall through to the label.
test_ib_wait ==
    /\ pc = "test_ib_wait"
    /\ \E res \in MsgResults : r' = res
    /\ pc' = "test_ib_error"
    /\ UNCHANGED <<regs, ring, dev, op, idx, i, j, status, hist>>

\* Lines 603-605, the label error: fence_put(fence); return r.
test_ib_error ==
    /\ pc = "test_ib_error"
    /\ status' = [fence |-> IF status.fence = "held" THEN "put" ELSE status.fence]
    /\ pc' = "test_ib_done"
    /\ UNCHANGED <<regs, ring, dev, op, idx, i, j, r, hist>>

EmitNext ==
    \/ Call_ring_emit_fence \/ emit_fence_write
    \/ Call_ring_emit_semaphore \/ emit_semaphore_write
    \/ Call_ring_emit_ib \/ emit_ib_write
    \/ Call_ring_test_ib \/ test_ib_create \/ test_ib_destroy \/ test_ib_wait
    \/ test_ib_error

EmitSpec == EmitInit /\ [][EmitNext]_vars

\* The k-th word written since the ring was locked.
EmitWord(k) == ring.buf[(ring.wptr_old + k - 1) % RingDw]

\* How many words were written since the ring was locked.
EmitCount == (ring.wptr - ring.wptr_old + RingDw) % RingDw

\* The header PACKET0(reg, 0) of a one-register write.
Tag(reg) == [type |-> "PACKET0", reg |-> reg, n |-> 0]

\* What the claim and its amendment share: 14 words, the tags, the sequence,
\* the low address word, and the two blocks with commands 0 and 2.
FenceFrame ==
    /\ EmitCount = 14 /\ ring.count_dw = 0
    /\ DOMAIN ring.buf = {(ring.wptr_old + k) % RingDw : k \in 0..13}
    /\ EmitWord(1) = Tag("mmUVD_CONTEXT_ID")
    /\ EmitWord(2) = status.seq \cap (0..31)
    /\ EmitWord(3) = Tag("mmUVD_GPCOM_VCPU_DATA0")
    /\ EmitWord(4) = status.addr \cap (0..31)
    /\ EmitWord(5) = Tag("mmUVD_GPCOM_VCPU_DATA1")
    /\ EmitWord(7) = Tag("mmUVD_GPCOM_VCPU_CMD")
    /\ EmitWord(8) = {}
    /\ EmitWord(9) = Tag("mmUVD_GPCOM_VCPU_DATA0")
    /\ EmitWord(10) = {}
    /\ EmitWord(11) = Tag("mmUVD_GPCOM_VCPU_DATA1")
    /\ EmitWord(12) = {}
    /\ EmitWord(13) = Tag("mmUVD_GPCOM_VCPU_CMD")
    /\ EmitWord(14) = {1}

\* C20 (as claimed): emit_fence writes exactly 14 words: context-id tag,
\* sequence; data0 tag, low 32 bits of the address; data1 tag, the high 32
\* bits of the 64-bit address; command tag, 0; data0 tag, 0; data1 tag, 0;
\* command tag, 2.
C20_FenceWordsFullHighAddress ==
    (op = "emit_fence" /\ pc = "emit_fence_done") =>
        /\ FenceFrame
        /\ EmitWord(6) = {b - 32 : b \in status.addr \cap (32..63)}

\* C20 (amended): emit_fence writes exactly 14 words: context-id tag, the
\* sequence (its low 32 bits); data0 tag, low 32 bits of the address; data1
\* tag, bits 32..39 of the address (the high word masked with 0xff); command
\* tag, 0; data0 tag, 0; data1 tag, 0; command tag, 2.  While it runs, the
\* words written so far are a prefix of these.
C20_FenceWordsMaskedHighAddress ==
    /\ (op = "emit_fence" /\ pc = "emit_fence_done") =>
           /\ FenceFrame
           /\ EmitWord(6) = {b - 32 : b \in status.addr \cap (32..39)}
    /\ (op = "emit_fence" /\ pc = "emit_fence_write") =>
           /\ EmitCount = idx - 1 /\ idx \in 1..14
           /\ ring.count_dw = 14 - EmitCount

\* C20 witness: emit_fence has returned for an address with bits above bit
\* 39 and a sequence with bits above bit 31, on a ring that wrapped.
C20_Witness ==
    /\ op = "emit_fence" /\ pc = "emit_fence_done"
    /\ status.addr = {5, 31, 32, 47, 63} /\ status.seq = {2, 40, 63}
    /\ ring.wptr_old = RingDw - 6 /\ ring.wptr = 8
    /\ EmitWord(6) = {0} /\ EmitWord(2) = {2}

\* C21: emit_semaphore writes exactly 6 words: low-address tag, bits 3..22 of
\* the address; high-address tag, bits 23..42 of the address; command tag,
\* 0x80 plus 1 for a wait and plus 0 for a signal; it returns true.  The
\* packet is a function of bits 3..42 of the address and the flag alone, so
\* addresses that differ in bits 0..2 or above bit 42 only give the same
\* packet.  While it runs, the words written so far are a prefix of these.
C21_SemaphorePacket ==
    /\ (op = "emit_semaphore" /\ pc = "emit_semaphore_done") =>
           LET a == status.addr \cap (3..42)
           IN  /\ EmitCount = 6 /\ ring.count_dw = 0
               /\ DOMAIN ring.buf = {(ring.wptr_old + k) % RingDw : k \in 0..5}
               /\ EmitWord(1) = Tag("mmUVD_SEMA_ADDR_LOW")
               /\ EmitWord(2) = {b - 3 : b \in {x \in a : x <= 22}}
               /\ EmitWord(3) = Tag("mmUVD_SEMA_ADDR_HIGH")
               /\ EmitWord(4) = {b - 23 : b \in {x \in a : x >= 23}}
               /\ EmitWord(5) = Tag("mmUVD_SEMA_CMD")
               /\ EmitWord(6) = IF status.emit_wait THEN {0, 7} ELSE {7}
               /\ r = "true"
    /\ (op = "emit_semaphore" /\ pc = "emit_semaphore_write") =>
           /\ EmitCount = idx - 1 /\ idx \in 1..6
           /\ ring.count_dw = 6 - EmitCount

\* C21 witness: a wait was emitted for an address with bits below bit 3 and
\* above bit 42 set, on a ring that wrapped; the packet shows none of them.
C21_Witness ==
    /\ op = "emit_semaphore" /\ pc = "emit_semaphore_done" /\ r = "true"
    /\ status.addr = 0..63 /\ status.emit_wait
    /\ ring.wptr_old = RingDw - 6 /\ ring.wptr = 0
    /\ EmitWord(2) = 0..19 /\ EmitWord(4) = 0..19 /\ EmitWord(6) = {0, 7}

---------------------------------------------------------------------------
(* Claims C22, C23                                                         *)

\* The engine is in the started state: VCPU out of reset, VCPU clock
\* enabled, no-fetch bit of the ring control clear.
EngineStarted ==
    /\ 3 \notin regs["mmUVD_SOFT_RESET"]
    /\ 9 \in regs["mmUVD_VCPU_CNTL"]
    /\ 16 \notin regs["mmUVD_RBC_RB_CNTL"]

\* C22 (as claimed): between lifecycle operations, whenever the ring is
\* marked ready the engine is in the started state.
C22_ReadyImpliesStarted ==
    (pc = "idle" /\ ring.ready) => EngineStarted

\* C22 (amended): when hw_init (called directly or by resume) returns
\* success the ring is marked ready and the engine is in the started state;
\* when hw_fini (called directly or by suspend) returns the ring is marked
\* not ready and the engine is stopped; no step of soft_reset or
\* set_powergating_state changes the ready mark, so after a gate the ring
\* can be marked ready while the engine is stopped.
C22_ReadyMarkFollowsHwInitAndHwFini ==
    /\ [](/\ (op = "hw_init" /\ pc \in {"hw_init_done", "done"} /\ r = "0") =>
                 (ring.ready /\ EngineStarted)
          /\ (op = "hw_fini" /\ pc = "done") =>
                 (~ring.ready /\ ~EngineStarted)
          /\ (op = "pg_gate" /\ pc = "done") => ~EngineStarted)
    /\ [][op' \in {"soft_reset", "pg_gate", "pg_ungate"} =>
              ring'.ready = ring.ready]_vars

\* C22 witness: set_powergating_state(GATE) has returned on a ring that is
\* marked ready; the engine is stopped.
C22_Witness ==
    /\ op = "pg_gate" /\ pc = "done" /\ r = "0"
    /\ ring.ready /\ ~EngineStarted
    /\ 3 \in regs["mmUVD_SOFT_RESET"] /\ regs["mmUVD_VCPU_CNTL"] = {}

\* C23 (as claimed): in start, stop and soft_reset, the retry cycles of the
\* boot poll included, every write of UVD_SOFT_RESET that leaves the VCPU
\* soft-reset bit set is made while the stall bit (bit 8) of UVD_LMI_CTRL2 is
\* set.
C23_VcpuResetOnlyWhileStalled ==
    [][(/\ Len(hist'.trace) = Len(hist.trace) + 1
        /\ hist'.trace[Len(hist'.trace)].reg = "mmUVD_SOFT_RESET"
        /\ 3 \in hist'.trace[Len(hist'.trace)].val)
       => 8 \in regs["mmUVD_LMI_CTRL2"]]_vars

=============================================================================
